---- MODULE Spec2Model ----
(***************************************************************************)
(* A model of the recipe application's persistence logic: the Ingredient   *)
(* and Unit name normalisation and duplicate detection (models.py), the    *)
(* REST serializers that create and update them and that write a dish      *)
(* together with its ingredient lines and steps (serializers.py).          *)
(*                                                                         *)
(* Text is modelled as a sequence of one-character strings, so that        *)
(* strip(), lower() and the case-insensitive comparison of the database    *)
(* are computed and not assumed.                                           *)
(***************************************************************************)
EXTENDS Integers, Sequences, FiniteSets, TLC

VARIABLES
    ingredients,      \* Ingredient table: set of [id, name]
    units,            \* Unit table: set of [id, name, abbreviation]
    dishes,           \* Dish table: set of [id, name, prep_time, cook_time, image]
    dishIngredients,  \* DishIngredient table: set of [dish, ingredient, unit, quantity]
    steps,            \* CookingStep table: set of [dish, step_number, image]
    requests,         \* in-flight unit-create requests (concurrent specification)
    audit,            \* whether last records the input of a call or only its name
    last,             \* the last operation handled and its outcome
    files,            \* the image files present in storage: set of paths
    groceryItems      \* GroceryItem table: set of [id, name, in_cart, is_optional]

vars ==
    <<ingredients, units, dishes, dishIngredients, steps, requests, audit, last,
      files, groceryItems>>

-----------------------------------------------------------------------------
(* Text *)

UpperCase == <<"A","B","C","D","E","F","G","H","I","J","K","L","M",
               "N","O","P","Q","R","S","T","U","V","W","X","Y","Z">>

LowerCase == <<"a","b","c","d","e","f","g","h","i","j","k","l","m",
               "n","o","p","q","r","s","t","u","v","w","x","y","z">>

Whitespace == {" ", "\t", "\n"}

\* the lower-case letter of each upper-case letter
LowerTable ==
    [c \in {UpperCase[i] : i \in 1..Len(UpperCase)} |->
        LowerCase[CHOOSE i \in 1..Len(UpperCase) : UpperCase[i] = c]]

\* str.lower() on one character
LowerChar(c) == IF c \in DOMAIN LowerTable THEN LowerTable[c] ELSE c

\* str.lower()
Lower(s) == [i \in 1..Len(s) |-> LowerChar(s[i])]

RECURSIVE LStrip(_)
LStrip(s) ==
    IF s # <<>> /\ Head(s) \in Whitespace THEN LStrip(Tail(s)) ELSE s

RECURSIVE RStrip(_)
RStrip(s) ==
    IF s # <<>> /\ s[Len(s)] \in Whitespace
    THEN RStrip(SubSeq(s, 1, Len(s) - 1))
    ELSE s

\* str.strip()
Strip(s) == RStrip(LStrip(s))

IsLetter(c) ==
    \E i \in 1..Len(UpperCase) : c = UpperCase[i] \/ c = LowerCase[i]

\* str.upper() on one character
UpperChar(c) ==
    IF \E i \in 1..Len(LowerCase) : LowerCase[i] = c
    THEN UpperCase[CHOOSE i \in 1..Len(LowerCase) : LowerCase[i] = c]
    ELSE c

\* str.title(): a letter that follows no letter is upper-cased, every other
\* letter is lower-cased
Title(s) ==
    [i \in 1..Len(s) |->
        IF i = 1 \/ ~IsLetter(s[i - 1]) THEN UpperChar(s[i]) ELSE LowerChar(s[i])]

\* the database's name__iexact lookup: equality up to letter case
IExact(stored, term) == Lower(stored) = Lower(term)

-----------------------------------------------------------------------------
(* Words used as names *)

w_pieces      == <<"p","i","e","c","e","s">>
w_piece       == <<"p","i","e","c","e">>
w_pcs         == <<"p","c","s">>
w_pc          == <<"p","c">>
w_tablespoons == <<"t","a","b","l","e","s","p","o","o","n","s">>
w_tablespoon  == <<"t","a","b","l","e","s","p","o","o","n">>
w_tbsp        == <<"t","b","s","p">>
w_tbs         == <<"t","b","s">>
w_teaspoons   == <<"t","e","a","s","p","o","o","n","s">>
w_teaspoon    == <<"t","e","a","s","p","o","o","n">>
w_tsp         == <<"t","s","p">>
w_ts          == <<"t","s">>
w_pounds      == <<"p","o","u","n","d","s">>
w_pound       == <<"p","o","u","n","d">>
w_lbs         == <<"l","b","s">>
w_lb          == <<"l","b">>
w_ounces      == <<"o","u","n","c","e","s">>
w_ounce       == <<"o","u","n","c","e">>
w_oz          == <<"o","z">>
w_cups        == <<"c","u","p","s">>
w_cup         == <<"c","u","p">>
w_c           == <<"c">>
w_minutes     == <<"m","i","n","u","t","e","s">>
w_minute      == <<"m","i","n","u","t","e">>
w_mins        == <<"m","i","n","s">>
w_min         == <<"m","i","n">>
w_hours       == <<"h","o","u","r","s">>
w_hour        == <<"h","o","u","r">>
w_hrs         == <<"h","r","s">>
w_hr          == <<"h","r">>
w_grams       == <<"g","r","a","m","s">>
w_gram        == <<"g","r","a","m">>
w_g           == <<"g">>
w_kilograms   == <<"k","i","l","o","g","r","a","m","s">>
w_kilogram    == <<"k","i","l","o","g","r","a","m">>
w_kg          == <<"k","g">>

\* raw inputs as a user types them
w_Tomatoes    == <<"T","o","m","a","t","o","e","s">>
w_tomatoes_upper == <<"T","O","M","A","T","O","E","S">>
w_tomato      == <<"t","o","m","a","t","o">>
w_tomatoes    == <<"t","o","m","a","t","o","e","s">>
w_Cup_padded  == <<" ","C","u","p"," ">>
w_Cup         == <<"C","u","p">>
w_Tablespoon  == <<"T","a","b","l","e","s","p","o","o","n">>
w_TBSP        == <<"T","B","S","P">>
w_blank       == <<" ">>
w_empty       == <<>>
w_soup        == <<"s", "o", "u", "p">>
w_pasta       == <<"p","a","s","t","a">>
w_Basil       == <<"B","a","s","i","l">>
w_basil       == <<"b","a","s","i","l">>
w_bottle      == <<"b","o","t","t","l","e">>
w_bottles     == <<"b","o","t","t","l","e","s">>
w_Bottles_padded == <<" ","B","o","t","t","l","e","s"," ">>
w_jars        == <<"j","a","r","s">>
w_s           == <<"s">>
w_milk        == <<"m","i","l","k">>
w_Milk_padded == <<" ","M","I","L","K"," ">>
w_rye_bread   == <<"r","y","e"," ","b","r","e","a","d">>
w_eggs        == <<"e","g","g","s">>

-----------------------------------------------------------------------------
(* Normalisation and similar terms *)

\* _normalize_name that also drops one trailing "s"
NormalizeNameSingular(name) ==
    LET n == Lower(Strip(name))
    IN  IF Len(n) > 1 /\ n[Len(n)] = "s" THEN SubSeq(n, 1, Len(n) - 1) ELSE n

\* _normalize_name without the lower()
NormalizeNameStripOnly(name) == Strip(name)

\* models.BaseNormalizationMixin._normalize_name: the entity flags are ignored
NormalizeName(name) == Lower(Strip(name))

\* serializers.BaseNormalizationMixin._normalize_name
SerializerNormalizeName(name) == Lower(Strip(name))

\* similar_groups of models.BaseNormalizationMixin._get_similar_terms
ModelSimilarGroups ==
    << {w_pieces, w_piece, w_pcs, w_pc},
       {w_tablespoons, w_tablespoon, w_tbsp, w_tbs},
       {w_teaspoons, w_teaspoon, w_tsp, w_ts},
       {w_pounds, w_pound, w_lbs, w_lb},
       {w_ounces, w_ounce, w_oz},
       {w_cups, w_cup, w_c},
       {w_minutes, w_minute, w_mins, w_min},
       {w_hours, w_hour, w_hrs, w_hr},
       {w_grams, w_gram, w_g},
       {w_kilograms, w_kilogram, w_kg} >>

\* similar_groups of serializers.BaseNormalizationMixin._get_similar_terms
SerializerSimilarGroups ==
    << {w_pieces, w_piece, w_pcs, w_pc},
       {w_tablespoons, w_tablespoon, w_tbsp, w_tbs},
       {w_teaspoons, w_teaspoon, w_tsp, w_ts},
       {w_pounds, w_pound, w_lbs, w_lb},
       {w_ounces, w_ounce, w_oz},
       {w_cups, w_cup, w_c},
       {w_grams, w_gram, w_g},
       {w_kilograms, w_kilogram, w_kg} >>

\* the loop "for group in similar_groups: if name in group: extend; break"
SimilarTermsIn(groups, name) ==
    LET n == Lower(Strip(name))
        hits == {i \in 1..Len(groups) : n \in groups[i]}
    IN  IF hits = {} THEN {n}
        ELSE {n} \cup groups[CHOOSE i \in hits : \A j \in hits : i <= j]

ModelSimilarTerms(name) == SimilarTermsIn(ModelSimilarGroups, name)

SerializerSimilarTerms(name) == SimilarTermsIn(SerializerSimilarGroups, name)

-----------------------------------------------------------------------------
(* Tables *)

MaxNameLenIngredient == 100
MaxNameLenUnit == 20
MaxAbbrLenUnit == 10

Ids(rows) == {r.id : r \in rows}

\* the primary key the database gives the next inserted row
NextId(rows) ==
    IF rows = {} THEN 1
    ELSE 1 + (CHOOSE i \in Ids(rows) : \A j \in Ids(rows) : j <= i)

\* QuerySet.first(): the row with the smallest primary key
First(rows) == CHOOSE r \in rows : \A q \in rows : r.id <= q.id

\* pk = 0 stands for an instance that is not saved yet (pk is None)
ExcludePk(rows, pk) == {r \in rows : r.id # pk}

\* an outcome of an operation on one table
Ok(table, row) == [status |-> "ok", errors |-> {}, table |-> table, row |-> row]

Rejected(table, errors) ==
    [status |-> "ValidationError", errors |-> errors, table |-> table,
     row |-> [id |-> 0]]

\* INSERT for pk = 0, UPDATE of the row pk otherwise
Upsert(rows, pk, row) == ExcludePk(rows, pk) \cup {row}

-----------------------------------------------------------------------------
(* Ingredient: models.py *)

\* Ingredient.objects.filter(Q(name__iexact=t1) | ...)
IngredientsMatching(rows, terms) ==
    {r \in rows : \E t \in terms : IExact(r.name, t)}

\* Ingredient.clean without the similar terms: only the name itself is looked up
IngredientCleanExactOnly(rows, name, pk) ==
    IF ExcludePk(IngredientsMatching(rows, {name}), pk) # {} THEN {"name"} ELSE {}

\* Ingredient.clean without the exclude(pk=self.pk)
IngredientCleanNoExclude(rows, name, pk) ==
    IF IngredientsMatching(rows, ModelSimilarTerms(NormalizeName(name))) # {}
    THEN {"__all__"} ELSE {}

\* Ingredient.clean: the errors it raises
IngredientClean(rows, name, pk) ==
    LET normalized_name == NormalizeName(name)
        similar_terms == ModelSimilarTerms(normalized_name)
        duplicates == ExcludePk(IngredientsMatching(rows, similar_terms), pk)
    IN  IF duplicates # {} THEN {"__all__"} ELSE {}

\* Model.full_clean for Ingredient: clean_fields, clean, validate_unique
IngredientFullClean(rows, name, pk) ==
    LET field_errors ==
            IF name = <<>> \/ Len(name) > MaxNameLenIngredient THEN {"name"} ELSE {}
        unique_errors ==
            IF field_errors = {} /\ \E r \in ExcludePk(rows, pk) : r.name = name
            THEN {"name"} ELSE {}
    IN  field_errors \cup IngredientClean(rows, name, pk) \cup unique_errors

\* Ingredient.save
IngredientSave(rows, name, pk) ==
    LET normalized == NormalizeName(name)
        errors == IngredientFullClean(rows, normalized, pk)
        row == [id |-> IF pk = 0 THEN NextId(rows) ELSE pk, name |-> normalized]
    IN  IF errors # {} THEN Rejected(rows, errors)
        ELSE Ok(Upsert(rows, pk, row), row)

-----------------------------------------------------------------------------
(* Unit: models.py *)

\* Unit.objects.filter(Q(name__iexact=t) | Q(abbreviation__iexact=t) | ...)
UnitsMatching(rows, terms) ==
    {r \in rows : \E t \in terms : IExact(r.name, t) \/ IExact(r.abbreviation, t)}

\* Unit.clean without its abbreviation check
UnitCleanNameOnly(rows, name, abbreviation, pk) ==
    IF ExcludePk(UnitsMatching(rows, ModelSimilarTerms(name)), pk) # {}
    THEN {"name"} ELSE {}

\* Unit.clean: the name check raises before the abbreviation check runs
UnitClean(rows, name, abbreviation, pk) ==
    LET name_conflicts == ExcludePk(UnitsMatching(rows, ModelSimilarTerms(name)), pk)
        abbr_conflicts ==
            ExcludePk(UnitsMatching(rows, ModelSimilarTerms(abbreviation)), pk)
    IN  IF name_conflicts # {} THEN {"name"}
        ELSE IF abbreviation # <<>> /\ abbr_conflicts # {} THEN {"abbreviation"}
        ELSE {}

\* Model.full_clean for Unit
UnitFullClean(rows, name, abbreviation, pk) ==
    LET name_errors ==
            IF name = <<>> \/ Len(name) > MaxNameLenUnit THEN {"name"} ELSE {}
        abbr_errors ==
            IF Len(abbreviation) > MaxAbbrLenUnit THEN {"abbreviation"} ELSE {}
        unique_errors ==
            IF name_errors = {} /\ \E r \in ExcludePk(rows, pk) : r.name = name
            THEN {"name"} ELSE {}
    IN  name_errors \cup abbr_errors \cup UnitClean(rows, name, abbreviation, pk)
        \cup unique_errors

\* super().save(): the INSERT or UPDATE, under the UNIQUE index on name
UnitWrite(rows, pk, row) ==
    IF \E r \in ExcludePk(rows, pk) : r.name = row.name
    THEN [status |-> "IntegrityError", errors |-> {"name"}, table |-> rows,
          row |-> [id |-> 0]]
    ELSE Ok(Upsert(rows, pk, row), row)

\* the abbreviation as Unit.save normalises it: only when it is not empty
NormalizeAbbreviation(abbreviation) ==
    IF abbreviation # <<>> THEN NormalizeName(abbreviation) ELSE <<>>

\* Unit.save
UnitSave(rows, name, abbreviation, pk) ==
    LET n == NormalizeName(name)
        a == NormalizeAbbreviation(abbreviation)
        errors == UnitFullClean(rows, n, a, pk)
        row == [id |-> IF pk = 0 THEN NextId(rows) ELSE pk,
                name |-> n, abbreviation |-> a]
    IN  IF errors # {} THEN Rejected(rows, errors)
        ELSE UnitWrite(rows, pk, row)

-----------------------------------------------------------------------------
(* IngredientSerializer and UnitSerializer: serializers.py *)

\* IngredientSerializer.validate_name: the errors it raises
IngredientValidateName(rows, value, pk) ==
    LET normalized_value == SerializerNormalizeName(value)
        similar_terms == SerializerSimilarTerms(normalized_value)
        existing == ExcludePk(IngredientsMatching(rows, similar_terms), pk)
    IN  IF existing # {} THEN {"name"} ELSE {}

\* the name field of IngredientSerializer: trimmed, not blank, unique, then
\* validate_name; create and update validate the instance and save it
IngredientSerializerSave(rows, raw, pk) ==
    LET value == Strip(raw)
        field_errors ==
            IF value = <<>> \/ Len(value) > MaxNameLenIngredient
                \/ \E r \in ExcludePk(rows, pk) : r.name = value
            THEN {"name"} ELSE {}
        name_errors ==
            IF field_errors # {} THEN field_errors
            ELSE IngredientValidateName(rows, value, pk)
        normalized == SerializerNormalizeName(value)
        \* create: _validate_model_instance(instance) before instance.save()
        model_errors ==
            IF pk = 0 THEN IngredientFullClean(rows, normalized, pk) ELSE {}
    IN  IF name_errors # {} THEN Rejected(rows, name_errors)
        ELSE IF model_errors # {} THEN Rejected(rows, model_errors)
        ELSE IngredientSave(rows, normalized, pk)

\* the abbreviation as the serializer normalises it
SerializerNormalizeAbbreviation(abbreviation) ==
    IF abbreviation # <<>> THEN SerializerNormalizeName(abbreviation) ELSE <<>>

\* UnitSerializer._validate_unit_data: a temporary Unit is full_clean()ed
UnitValidateUnitData(rows, name, abbreviation, pk) ==
    UnitFullClean(rows, SerializerNormalizeName(name),
                  SerializerNormalizeAbbreviation(abbreviation), pk)

\* the fields of UnitSerializer and validate(), on the trimmed input
UnitSerializerFieldErrors(rows, name, abbreviation, pk) ==
    (IF name = <<>> \/ Len(name) > MaxNameLenUnit
        \/ \E r \in ExcludePk(rows, pk) : r.name = name
     THEN {"name"} ELSE {})
    \cup
    (IF Len(abbreviation) > MaxAbbrLenUnit THEN {"abbreviation"} ELSE {})

\* is_valid(), then UnitSerializer.create or update
UnitSerializerSave(rows, raw_name, raw_abbreviation, pk) ==
    LET name == Strip(raw_name)
        abbreviation == Strip(raw_abbreviation)
        field_errors == UnitSerializerFieldErrors(rows, name, abbreviation, pk)
        data_errors == UnitValidateUnitData(rows, name, abbreviation, pk)
    IN  IF field_errors # {} THEN Rejected(rows, field_errors)
        ELSE IF data_errors # {} THEN Rejected(rows, data_errors)
        ELSE UnitSave(rows, SerializerNormalizeName(name),
                      SerializerNormalizeAbbreviation(abbreviation), pk)

-----------------------------------------------------------------------------
(* DishIngredientSerializer: the resolve-or-create helpers *)

\* _get_or_create_ingredient
GetOrCreateIngredient(rows, name) ==
    LET normalized_name == SerializerNormalizeName(name)
        similar_terms == SerializerSimilarTerms(normalized_name)
        existing == IngredientsMatching(rows, similar_terms)
        errors == IngredientFullClean(rows, Strip(name), 0)
    IN  IF existing # {} THEN Ok(rows, First(existing))
        ELSE IF errors # {} THEN Rejected(rows, errors)
        ELSE IngredientSave(rows, Strip(name), 0)

\* _get_or_create_unit
GetOrCreateUnit(rows, name) ==
    LET normalized_name == SerializerNormalizeName(name)
        similar_terms == SerializerSimilarTerms(normalized_name)
        existing == UnitsMatching(rows, similar_terms)
        errors == UnitFullClean(rows, Strip(name), <<>>, 0)
    IN  IF existing # {} THEN Ok(rows, First(existing))
        ELSE IF errors # {} THEN Rejected(rows, errors)
        ELSE UnitSave(rows, Strip(name), <<>>, 0)

-----------------------------------------------------------------------------
(* Dish: models.py *)

None == -1

MaxTotalTime == 240
MinPrepTime == 1
MinCookTime == 0
MaxFieldTime == 1440
MinQuantity == 0
MinStepNumber == 1
MaxNameLenDish == 100

\* Dish.clean with the total compared by >= instead of >
DishCleanAtLeast(prep_time, cook_time) ==
    LET required ==
            (IF prep_time = None THEN {<<"prep_time", "required">>} ELSE {})
            \cup
            (IF cook_time = None THEN {<<"cook_time", "required">>} ELSE {})
    IN  IF prep_time # None /\ cook_time # None
           /\ (prep_time + cook_time) >= MaxTotalTime
        THEN {e \in required : e[1] # "cook_time"}
             \cup {<<"cook_time", "Total cooking time exceeds 4 hours.">>}
        ELSE required

\* Dish.clean: the errors dictionary it raises, as a set of <<field, message>>
DishClean(prep_time, cook_time) ==
    LET required ==
            (IF prep_time = None THEN {<<"prep_time", "required">>} ELSE {})
            \cup
            (IF cook_time = None THEN {<<"cook_time", "required">>} ELSE {})
    IN  IF prep_time # None /\ cook_time # None
           /\ (prep_time + cook_time) > MaxTotalTime
        THEN {e \in required : e[1] # "cook_time"}
             \cup {<<"cook_time", "Total cooking time exceeds 4 hours.">>}
        ELSE required

\* the validators of Dish.prep_time and Dish.cook_time
DishTimeFieldErrors(prep_time, cook_time) ==
    (IF prep_time = None \/ prep_time < MinPrepTime \/ prep_time > MaxFieldTime
     THEN {"prep_time"} ELSE {})
    \cup
    (IF cook_time = None \/ cook_time < MinCookTime \/ cook_time > MaxFieldTime
     THEN {"cook_time"} ELSE {})

\* the name field of a Dish: not blank, at most 100 characters, unique
DishNameErrors(rows, name, pk) ==
    IF name = <<>> \/ Len(name) > MaxNameLenDish
       \/ \E r \in ExcludePk(rows, pk) : r.name = name
    THEN {"name"} ELSE {}

\* an image field that holds no file
NoImage == ""

\* the image of the Dish row pk; a dish that is being created has none
StoredImage(rows, pk) ==
    IF pk = 0 THEN NoImage ELSE (CHOOSE r \in rows : r.id = pk).image

\* Dish.save: no validation, the row is written as given; a write that
\* carries no new image leaves the image as stored
DishSave(rows, name, prep_time, cook_time, pk) ==
    LET row == [id |-> IF pk = 0 THEN NextId(rows) ELSE pk, name |-> name,
                prep_time |-> prep_time, cook_time |-> cook_time,
                image |-> StoredImage(rows, pk)]
    IN  Ok(Upsert(rows, pk, row), row)

\* the admin's DishForm: ModelForm validation runs full_clean (field
\* validators, Dish.clean, uniqueness) before the model is saved
DishFormSave(rows, name, prep_time, cook_time, pk) ==
    LET field_errors == DishTimeFieldErrors(prep_time, cook_time)
                        \cup DishNameErrors(rows, Strip(name), pk)
        clean_errors == {e[1] : e \in DishClean(prep_time, cook_time)}
    IN  IF field_errors \cup clean_errors # {}
        THEN Rejected(rows, field_errors \cup clean_errors)
        ELSE DishSave(rows, Strip(name), prep_time, cook_time, pk)

-----------------------------------------------------------------------------
(* DishSerializer: the nested write *)

\* the database as one value, so that a request can be rolled back
Db(i, u, d, di, st) ==
    [ingredients |-> i, units |-> u, dishes |-> d, dishIngredients |-> di,
     steps |-> st]

Outcome(status, db) == [status |-> status, db |-> db]

\* DishIngredientSerializer's fields, as run on one line by is_valid()
LineErrors(db, line) ==
    (IF line.ingredient_id # 0 /\ line.ingredient_id \notin Ids(db.ingredients)
     THEN {"ingredient_id"} ELSE {})
    \cup
    (IF line.unit_id # 0 /\ line.unit_id \notin Ids(db.units)
     THEN {"unit_id"} ELSE {})
    \cup
    (IF line.quantity < MinQuantity THEN {"quantity"} ELSE {})

\* CookingStepSerializer's fields, as run on one step by is_valid()
StepErrors(step) ==
    IF step.step_number < MinStepNumber THEN {"step_number"} ELSE {}

\* DishSerializer.is_valid(): field validators only, Dish.clean is not run
DishSerializerValidate(db, payload, pk) ==
    DishNameErrors(db.dishes, Strip(payload.name), pk)
    \cup DishTimeFieldErrors(payload.prep_time, payload.cook_time)
    \cup (IF payload.has_lines
          THEN UNION {LineErrors(db, payload.lines[i]) : i \in 1..Len(payload.lines)}
          ELSE {})
    \cup (IF payload.has_steps
          THEN UNION {StepErrors(payload.steps[i]) : i \in 1..Len(payload.steps)}
          ELSE {})

\* DishIngredient.objects.create without the unique_together index
InsertDishIngredientNoUnique(db, dish, ingredient, unit, quantity) ==
    IF dish = 0 \/ ingredient = 0 \/ unit = 0
    THEN Outcome("IntegrityError", db)
    ELSE Outcome("ok",
                 [db EXCEPT !.dishIngredients =
                     @ \cup {[dish |-> dish, ingredient |-> ingredient,
                              unit |-> unit, quantity |-> quantity]}])

\* DishIngredient.objects.create: NOT NULL and unique_together (dish, ingredient)
InsertDishIngredient(db, dish, ingredient, unit, quantity) ==
    IF dish = 0 \/ ingredient = 0 \/ unit = 0
       \/ \E r \in db.dishIngredients : r.dish = dish /\ r.ingredient = ingredient
    THEN Outcome("IntegrityError", db)
    ELSE Outcome("ok",
                 [db EXCEPT !.dishIngredients =
                     @ \cup {[dish |-> dish, ingredient |-> ingredient,
                              unit |-> unit, quantity |-> quantity]}])

\* "if 'ingredient_name' in data": the name wins over ingredient_id
ResolveIngredient(rows, line) ==
    IF line.has_ingredient_name
    THEN GetOrCreateIngredient(rows, Strip(line.ingredient_name))
    ELSE Ok(rows, [id |-> line.ingredient_id])

\* "if 'unit_name' in data": the name wins over unit_id
ResolveUnit(rows, line) ==
    IF line.has_unit_name
    THEN GetOrCreateUnit(rows, Strip(line.unit_name))
    ELSE Ok(rows, [id |-> line.unit_id])

\* the loop body once the unit is resolved (ru): the row is inserted
LineWithUnit(db, dish, line, ingredient, ru) ==
    IF ru.status # "ok" THEN Outcome(ru.status, db)
    ELSE InsertDishIngredient([db EXCEPT !.units = ru.table], dish, ingredient,
                              ru.row.id, line.quantity)

\* the loop body once the ingredient is resolved (ri): the unit comes next
LineWithIngredient(db, dish, line, ri) ==
    IF ri.status # "ok" THEN Outcome(ri.status, db)
    ELSE LineWithUnit([db EXCEPT !.ingredients = ri.table], dish, line,
                      ri.row.id, ResolveUnit(db.units, line))

\* the body of the loop over ingredients_data in create and update
CreateLine(db, dish, line) ==
    LineWithIngredient(db, dish, line, ResolveIngredient(db.ingredients, line))

RECURSIVE CreateLines(_, _, _)

\* an exception in one line ends the loop
LinesAfter(r, dish, rest) ==
    IF r.status # "ok" THEN r ELSE CreateLines(r.db, dish, rest)

\* the loop leaving after its first line
CreateLinesFirstOnly(db, dish, lines) ==
    IF lines = <<>> THEN Outcome("ok", db)
    ELSE CreateLine(db, dish, Head(lines))

\* for ingredient_data in ingredients_data: ...
CreateLines(db, dish, lines) ==
    IF lines = <<>> THEN Outcome("ok", db)
    ELSE LinesAfter(CreateLine(db, dish, Head(lines)), dish, Tail(lines))

\* CookingStep.objects.create: unique_together (dish, step_number)
InsertStep(db, dish, step) ==
    IF \E r \in db.steps : r.dish = dish /\ r.step_number = step.step_number
    THEN Outcome("IntegrityError", db)
    ELSE Outcome("ok",
                 [db EXCEPT !.steps =
                     @ \cup {[dish |-> dish, step_number |-> step.step_number,
                              image |-> NoImage]}])

RECURSIVE CreateSteps(_, _, _)

\* an exception in one step ends the loop
StepsAfter(r, dish, rest) ==
    IF r.status # "ok" THEN r ELSE CreateSteps(r.db, dish, rest)

\* for step_data in steps_data: CookingStep.objects.create(...)
CreateSteps(db, dish, steplist) ==
    IF steplist = <<>> THEN Outcome("ok", db)
    ELSE StepsAfter(InsertStep(db, dish, Head(steplist)), dish, Tail(steplist))

\* with transaction.atomic(): the block's writes are undone when it raises
Atomic(before, r) == IF r.status = "ok" THEN r ELSE Outcome(r.status, before)

\* DishIngredientSerializer.create: a name that is not blank wins over the id
StandaloneIngredient(rows, line) ==
    IF line.has_ingredient_name /\ Strip(line.ingredient_name) # <<>>
    THEN GetOrCreateIngredient(rows, Strip(line.ingredient_name))
    ELSE Ok(rows, [id |-> line.ingredient_id])

StandaloneUnit(rows, line) ==
    IF line.has_unit_name /\ Strip(line.unit_name) # <<>>
    THEN GetOrCreateUnit(rows, Strip(line.unit_name))
    ELSE Ok(rows, [id |-> line.unit_id])

\* DishIngredientSerializer.create once both lookups (ri, ru) have run: the
\* missing ingredient is refused, and super().create() inserts without a dish
StandaloneResolved(db, line, ri, ru) ==
    IF ri.status # "ok" THEN Outcome(ri.status, db)
    ELSE IF ru.status # "ok" THEN Outcome(ru.status, db)
    ELSE IF ri.row.id = 0 THEN Outcome("ValidationError", db)
    ELSE InsertDishIngredient([db EXCEPT !.ingredients = ri.table,
                                         !.units = ru.table],
                              0, ri.row.id, ru.row.id, line.quantity)

\* POST /api/dish-ingredients/: is_valid(), then create in one atomic block
DishIngredientSerializerCreate(db, line) ==
    IF LineErrors(db, line) # {} THEN Outcome("ValidationError", db)
    ELSE Atomic(db, StandaloneResolved(db, line,
                                       StandaloneIngredient(db.ingredients, line),
                                       StandaloneUnit(db.units, line)))

\* create: the steps loop runs when the lines loop (rl) raised nothing
CreateStepsOf(rl, dish, payload) ==
    IF rl.status # "ok" THEN rl
    ELSE CreateSteps(rl.db, dish, IF payload.has_steps THEN payload.steps ELSE <<>>)

\* create: the two loops after Dish.objects.create (saved)
CreateNested(db, payload, saved) ==
    CreateStepsOf(CreateLines([db EXCEPT !.dishes = saved.table], saved.row.id,
                              IF payload.has_lines THEN payload.lines ELSE <<>>),
                  saved.row.id, payload)

\* DishSerializer.create, after is_valid(): no transaction surrounds it
DishSerializerCreate(db, payload) ==
    IF DishSerializerValidate(db, payload, 0) # {}
    THEN Outcome("ValidationError", db)
    ELSE CreateNested(db, payload,
                      DishSave(db.dishes, Strip(payload.name), payload.prep_time,
                               payload.cook_time, 0))

\* update's lines block without the delete of the prior lines
ReplaceLinesAppend(db, pk, payload) ==
    IF payload.has_lines
    THEN Atomic(db, CreateLines(db, pk, payload.lines))
    ELSE Outcome("ok", db)

\* update: "if ingredients_data is not None", one atomic block
ReplaceLines(db, pk, payload) ==
    IF payload.has_lines
    THEN Atomic(db, CreateLines([db EXCEPT !.dishIngredients =
                                     {r \in @ : r.dish # pk}],
                                pk, payload.lines))
    ELSE Outcome("ok", db)

\* update: "if steps_data is not None", a second atomic block
ReplaceSteps(rl, pk, payload) ==
    IF rl.status # "ok" THEN rl
    ELSE IF payload.has_steps
    THEN Atomic(rl.db, CreateSteps([rl.db EXCEPT !.steps = {r \in @ : r.dish # pk}],
                                   pk, payload.steps))
    ELSE rl

\* update: the two blocks after instance.save() (saved)
UpdateNested(db, pk, payload, saved) ==
    ReplaceSteps(ReplaceLines([db EXCEPT !.dishes = saved.table], pk, payload),
                 pk, payload)

\* DishSerializer.update, after is_valid()
DishSerializerUpdate(db, pk, payload) ==
    IF DishSerializerValidate(db, payload, pk) # {}
    THEN Outcome("ValidationError", db)
    ELSE UpdateNested(db, pk, payload,
                      DishSave(db.dishes, Strip(payload.name), payload.prep_time,
                               payload.cook_time, pk))

-----------------------------------------------------------------------------
(* GroceryItem: serializers.py, views.py *)

\* GrocerySerializer.validate_name: the errors it raises
GroceryNameErrors(rows, raw_name, pk) ==
    IF Strip(raw_name) = <<>> THEN {"name"}
    ELSE IF \E r \in ExcludePk(rows, pk) : IExact(r.name, Strip(raw_name))
         THEN {"name"}
         ELSE {}

\* POST /api/groceries/: is_valid(), then ModelSerializer.create
GrocerySerializerCreate(rows, raw_name, in_cart, is_optional) ==
    IF GroceryNameErrors(rows, raw_name, 0) # {}
    THEN Rejected(rows, GroceryNameErrors(rows, raw_name, 0))
    ELSE Ok(rows \cup {[id |-> NextId(rows), name |-> Title(Strip(raw_name)),
                        in_cart |-> in_cart, is_optional |-> is_optional]},
            [id |-> NextId(rows)])

\* PATCH /api/groceries/<pk>/ with in_cart alone
GrocerySetInCart(rows, pk, in_cart) ==
    {IF r.id = pk THEN [r EXCEPT !.in_cart = in_cart] ELSE r : r \in rows}

\* filter(in_cart=...)
InCart(rows, in_cart) == {r \in rows : r.in_cart = in_cart}

\* mark_all_in_cart that leaves the optional items alone
MarkAllInCartRequiredOnly(rows) ==
    [count |-> Cardinality({r \in InCart(rows, FALSE) : ~r.is_optional}),
     table |-> {IF r.is_optional THEN r ELSE [r EXCEPT !.in_cart = TRUE] :
                   r \in rows}]

\* mark_all_in_cart: filter(in_cart=False).update(in_cart=True)
MarkAllInCart(rows) ==
    [count |-> Cardinality(InCart(rows, FALSE)),
     table |-> {[r EXCEPT !.in_cart = TRUE] : r \in InCart(rows, FALSE)}
               \cup InCart(rows, TRUE)]

\* clear_cart that empties the whole list
ClearCartAll(rows) ==
    [count |-> Cardinality(InCart(rows, TRUE)), table |-> {}]

\* clear_cart: filter(in_cart=True).count(), then filter(in_cart=True).delete()
ClearCart(rows) ==
    [count |-> Cardinality(InCart(rows, TRUE)),
     table |-> rows \ InCart(rows, TRUE)]

-----------------------------------------------------------------------------
(* Bounds and inputs *)

MaxIngredients == 3
MaxUnits == 2

\* names typed for ingredients: plural and singular, mixed case, padded, blank
IngredientNames ==
    {w_Tomatoes, w_tomato, w_Cup_padded, w_cups, w_min, w_minutes, w_blank}

\* names and abbreviations typed for units
UnitNames == {w_Tablespoon, w_tablespoons, w_Cup_padded, w_minutes}

UnitAbbreviations == {w_empty, w_TBSP, w_c}

\* the smaller inputs of the specification that runs every entry point
CatalogIngredientNames == {w_Tomatoes, w_Cup_padded, w_cups}

CatalogUnitNames == {w_Tablespoon, w_min, w_minutes}

CatalogUnitAbbreviations == {w_empty, w_TBSP}

Line(iid, has_iname, iname, uid, has_uname, uname, quantity) ==
    [ingredient_id |-> iid, has_ingredient_name |-> has_iname,
     ingredient_name |-> iname, unit_id |-> uid, has_unit_name |-> has_uname,
     unit_name |-> uname, quantity |-> quantity]

LineByName(iname, uname, quantity) ==
    Line(0, TRUE, iname, 0, TRUE, uname, quantity)

LineById(iid, uid, quantity) ==
    Line(iid, FALSE, w_empty, uid, FALSE, w_empty, quantity)

Payload(name, prep_time, cook_time, has_lines, lines, has_steps, steplist) ==
    [name |-> name, prep_time |-> prep_time, cook_time |-> cook_time,
     has_lines |-> has_lines, lines |-> lines,
     has_steps |-> has_steps, steps |-> steplist]

\* dish payloads of the catalogue specification: one line given by names
CatalogPayloads ==
    {Payload(w_pasta, 60, 30, TRUE, <<LineByName(i, u, 1)>>, FALSE, <<>>) :
        i \in {w_Tomatoes, w_cups}, u \in {w_TBSP, w_minutes}}

-----------------------------------------------------------------------------
(* Image files and deletes: models.py, admin.py *)

FileOutcome(status, db, fs) == [status |-> status, db |-> db, files |-> fs]

Removal(status, fs) == [status |-> status, files |-> fs]

\* one image of Dish.delete when the retry removes nothing
RemoveNoRetry(fs, image, fails) ==
    IF image = NoImage \/ image \notin fs THEN Removal("ok", fs)
    ELSE IF fails[image] = 0 THEN Removal("ok", fs \ {image})
    ELSE IF fails[image] = 1 THEN Removal("ok", fs)
    ELSE Removal("PermissionError", fs)

\* one image of Dish.delete: os.remove when the file is there, and once more
\* after a PermissionError; fails[image] is how often the removal is refused
RemoveWithRetry(fs, image, fails) ==
    IF image = NoImage \/ image \notin fs THEN Removal("ok", fs)
    ELSE IF fails[image] <= 1 THEN Removal("ok", fs \ {image})
    ELSE Removal("PermissionError", fs)

RECURSIVE RemoveImages(_, _, _)

\* an exception that leaves the except block ends the method
RemoveNext(r, rest, fails) ==
    IF r.status # "ok" THEN r ELSE RemoveImages(r.files, rest, fails)

\* the image blocks of Dish.delete and delete_queryset, one after the other
RemoveImages(fs, images, fails) ==
    IF images = <<>> THEN Removal("ok", fs)
    ELSE RemoveNext(RemoveWithRetry(fs, Head(images), fails), Tail(images), fails)

RECURSIVE StepImages(_)

\* the images of self.steps.all(), in Meta.ordering (step_number)
StepImages(rows) ==
    IF rows = {} THEN <<>>
    ELSE LET first == CHOOSE r \in rows :
                          \A x \in rows : r.step_number <= x.step_number
         IN  <<first.image>> \o StepImages(rows \ {first})

\* the dish image, then the image of each step of the dish
DishImages(db, pk) ==
    <<StoredImage(db.dishes, pk)>>
    \o StepImages({r \in db.steps : r.dish = pk})

\* super().delete(): the rows go, with the on_delete=CASCADE rows of the dish
Cascade(db, pks) ==
    [db EXCEPT !.dishes = {r \in @ : r.id \notin pks},
               !.dishIngredients = {r \in @ : r.dish \notin pks},
               !.steps = {r \in @ : r.dish \notin pks}]

\* the database delete runs when no removal (r) raised
DeleteAfter(db, pks, r) ==
    IF r.status # "ok" THEN FileOutcome(r.status, db, r.files)
    ELSE FileOutcome("ok", Cascade(db, pks), r.files)

\* Dish.delete
DishDelete(db, fs, pk, fails) ==
    DeleteAfter(db, {pk}, RemoveImages(fs, DishImages(db, pk), fails))

RECURSIVE QuerysetImages(_, _)

\* for dish in queryset: its image, then its steps' images
QuerysetImages(db, order) ==
    IF order = <<>> THEN <<>>
    ELSE DishImages(db, Head(order)) \o QuerysetImages(db, Tail(order))

\* DishAdmin.delete_queryset on the dishes of order
DeleteQueryset(db, fs, order, fails) ==
    DeleteAfter(db, {order[i] : i \in 1..Len(order)},
                RemoveImages(fs, QuerysetImages(db, order), fails))

\* Unit.delete with the PROTECT of DishIngredient.unit turned into a cascade
UnitDeleteCascade(db, pk) ==
    Outcome("ok", [db EXCEPT !.units = {r \in @ : r.id # pk},
                             !.dishIngredients = {r \in @ : r.unit # pk}])

\* Unit.delete: DishIngredient.unit is on_delete=PROTECT. GroceryItem.unit is
\* PROTECT too, but no form or serializer sets it, so it is always NULL.
UnitDelete(db, pk) ==
    IF \E r \in db.dishIngredients : r.unit = pk
    THEN Outcome("ProtectedError", db)
    ELSE Outcome("ok", [db EXCEPT !.units = {r \in @ : r.id # pk}])

\* the old file is removed even when the image did not change
RemoveOldAlways(fs, old, new, refused) ==
    IF old = NoImage \/ old \notin fs THEN Removal("ok", fs)
    ELSE IF refused THEN Removal("PermissionError", fs)
    ELSE Removal("ok", fs \ {old})

\* the old file is removed when the stored image is set and differs; the
\* removal has no retry here
RemoveOld(fs, old, new, refused) ==
    IF old = NoImage \/ old = new \/ old \notin fs THEN Removal("ok", fs)
    ELSE IF refused THEN Removal("PermissionError", fs)
    ELSE Removal("ok", fs \ {old})

\* super().save() of a Dish with a new image, when RemoveOld (r) raised nothing
DishImageSaved(db, pk, path, r) ==
    IF r.status # "ok" THEN FileOutcome(r.status, db, r.files)
    ELSE FileOutcome("ok",
                     [db EXCEPT !.dishes =
                         {IF x.id = pk THEN [x EXCEPT !.image = path] ELSE x :
                             x \in @}],
                     r.files \cup {path})

\* Dish.save of an existing dish with a newly uploaded image
DishSaveImage(db, fs, pk, path, refused) ==
    DishImageSaved(db, pk, path,
                   RemoveOld(fs, StoredImage(db.dishes, pk), path, refused))

\* super().save() of a CookingStep with a new image
StepImageSaved(db, step, path, r) ==
    IF r.status # "ok" THEN FileOutcome(r.status, db, r.files)
    ELSE FileOutcome("ok",
                     [db EXCEPT !.steps =
                         {IF x = step THEN [x EXCEPT !.image = path] ELSE x :
                             x \in @}],
                     r.files \cup {path})

\* CookingStep.save of an existing step with a newly uploaded image
StepSaveImage(db, fs, step, path, refused) ==
    StepImageSaved(db, step, path, RemoveOld(fs, step.image, path, refused))

\* super().save() of a Dish whose image field is kept or cleared: no file is
\* written
DishFieldsSaved(db, pk, image, r) ==
    IF r.status # "ok" THEN FileOutcome(r.status, db, r.files)
    ELSE FileOutcome("ok",
                     [db EXCEPT !.dishes =
                         {IF x.id = pk THEN [x EXCEPT !.image = image] ELSE x :
                             x \in @}],
                     r.files)

\* Dish.save of an existing dish with no upload
DishSaveFields(db, fs, pk, image, refused) ==
    DishFieldsSaved(db, pk, image,
                    RemoveOld(fs, StoredImage(db.dishes, pk), image, refused))

\* super().save() of a CookingStep whose image field is kept or cleared
StepFieldsSaved(db, step, image, r) ==
    IF r.status # "ok" THEN FileOutcome(r.status, db, r.files)
    ELSE FileOutcome("ok",
                     [db EXCEPT !.steps =
                         {IF x = step THEN [x EXCEPT !.image = image] ELSE x :
                             x \in @}],
                     r.files)

\* CookingStep.save of an existing step with no upload
StepSaveFields(db, fs, step, image, refused) ==
    StepFieldsSaved(db, step, image, RemoveOld(fs, step.image, image, refused))

\* CookingStep.delete: the image is removed when the file is there, in one
\* attempt, and then the row is deleted; fails is how often the operating
\* system refuses the removal of the file in a row
StepDelete(db, fs, step, fails) ==
    IF step.image # NoImage /\ step.image \in fs /\ fails >= 1
    THEN FileOutcome("PermissionError", db, fs)
    ELSE FileOutcome("ok", [db EXCEPT !.steps = @ \ {step}], fs \ {step.image})

-----------------------------------------------------------------------------
(* State *)

CurrentDb == Db(ingredients, units, dishes, dishIngredients, steps)

WithinBounds(db) ==
    /\ Cardinality(db.ingredients) <= MaxIngredients
    /\ Cardinality(db.units) <= MaxUnits

\* what last keeps of a call
Observe(call, status) ==
    [call |-> IF audit THEN call ELSE [op |-> call.op], status |-> status]

EmptyDb ==
    /\ ingredients = {}
    /\ units = {}
    /\ dishes = {}
    /\ dishIngredients = {}
    /\ steps = {}
    /\ requests = <<>>
    /\ files = {}
    /\ groceryItems = {}
    /\ last = [call |-> [op |-> "none"], status |-> "ok"]

\* the request's writes reach the tables and its outcome is recorded
Commit(call, r) ==
    /\ WithinBounds(r.db)
    /\ ingredients' = r.db.ingredients
    /\ units' = r.db.units
    /\ dishes' = r.db.dishes
    /\ dishIngredients' = r.db.dishIngredients
    /\ steps' = r.db.steps
    /\ last' = Observe(call, r.status)
    /\ UNCHANGED <<requests, audit, files, groceryItems>>

CommitIngredients(call, r) ==
    Commit(call, Outcome(r.status, [CurrentDb EXCEPT !.ingredients = r.table]))

CommitUnits(call, r) ==
    Commit(call, Outcome(r.status, [CurrentDb EXCEPT !.units = r.table]))

CommitDishes(call, r) ==
    Commit(call, Outcome(r.status, [CurrentDb EXCEPT !.dishes = r.table]))

-----------------------------------------------------------------------------
(* Operations, one request at a time *)

\* Ingredient(name=...).save() for a new (pk = 0) or an existing instance
IngredientModelSave(name, pk) ==
    /\ pk = 0 \/ pk \in Ids(ingredients)
    /\ CommitIngredients([op |-> "Ingredient.save", name |-> name, pk |-> pk],
                         IngredientSave(ingredients, name, pk))

\* POST /api/ingredients/ (pk = 0) and PUT /api/ingredients/<pk>/
IngredientApiSave(name, pk) ==
    /\ pk = 0 \/ pk \in Ids(ingredients)
    /\ CommitIngredients([op |-> "IngredientSerializer", name |-> name, pk |-> pk],
                         IngredientSerializerSave(ingredients, name, pk))

\* Unit(name=..., abbreviation=...).save()
UnitModelSave(name, abbreviation, pk) ==
    /\ pk = 0 \/ pk \in Ids(units)
    /\ CommitUnits([op |-> "Unit.save", name |-> name,
                    abbreviation |-> abbreviation, pk |-> pk],
                   UnitSave(units, name, abbreviation, pk))

\* POST /api/units/ (pk = 0) and PUT /api/units/<pk>/
UnitApiSave(name, abbreviation, pk) ==
    /\ pk = 0 \/ pk \in Ids(units)
    /\ CommitUnits([op |-> "UnitSerializer", name |-> name,
                    abbreviation |-> abbreviation, pk |-> pk],
                   UnitSerializerSave(units, name, abbreviation, pk))

\* POST /api/dishes/
DishApiCreate(payload) ==
    Commit([op |-> "DishSerializer.create", payload |-> payload, pk |-> 0],
           DishSerializerCreate(CurrentDb, payload))

\* POST /api/dish-ingredients/
DishIngredientApiCreate(line) ==
    Commit([op |-> "DishIngredientSerializer.create", line |-> line],
           DishIngredientSerializerCreate(CurrentDb, line))

\* PUT /api/dishes/<pk>/
DishApiUpdate(pk, payload) ==
    /\ pk \in Ids(dishes)
    /\ Commit([op |-> "DishSerializer.update", payload |-> payload, pk |-> pk],
              DishSerializerUpdate(CurrentDb, pk, payload))

\* the admin's add and change views of a Dish
DishAdminSave(name, prep_time, cook_time, pk) ==
    /\ pk = 0 \/ pk \in Ids(dishes)
    /\ CommitDishes([op |-> "DishForm", name |-> name, prep_time |-> prep_time,
                     cook_time |-> cook_time, pk |-> pk],
                    DishFormSave(dishes, name, prep_time, cook_time, pk))

-----------------------------------------------------------------------------
(* Every entry point that writes Ingredient or Unit rows *)

Init == EmptyDb /\ audit = FALSE

Next ==
    \/ \E n \in CatalogIngredientNames, pk \in 0..MaxIngredients :
          IngredientModelSave(n, pk)
    \/ \E n \in CatalogIngredientNames, pk \in 0..MaxIngredients :
          IngredientApiSave(n, pk)
    \/ \E n \in CatalogUnitNames, a \in CatalogUnitAbbreviations, pk \in 0..MaxUnits :
          UnitModelSave(n, a, pk)
    \/ \E n \in CatalogUnitNames, a \in CatalogUnitAbbreviations, pk \in 0..MaxUnits :
          UnitApiSave(n, a, pk)
    \/ \E p \in CatalogPayloads : DishApiCreate(p)
    \/ \E p \in CatalogPayloads, pk \in Ids(dishes) : DishApiUpdate(pk, p)

Spec == Init /\ [][Next]_vars

-----------------------------------------------------------------------------
(* Ingredient requests alone, with their inputs recorded *)

InitIngredients == EmptyDb /\ audit = TRUE

NextIngredients ==
    \/ \E n \in IngredientNames, pk \in 0..MaxIngredients : IngredientModelSave(n, pk)
    \/ \E n \in IngredientNames, pk \in 0..MaxIngredients : IngredientApiSave(n, pk)

SpecIngredients == InitIngredients /\ [][NextIngredients]_vars

-----------------------------------------------------------------------------
(* Unit requests alone, with their inputs recorded *)

InitUnits == EmptyDb /\ audit = TRUE

NextUnits ==
    \/ \E n \in UnitNames, a \in UnitAbbreviations, pk \in 0..MaxUnits :
          UnitModelSave(n, a, pk)
    \/ \E n \in UnitNames, a \in UnitAbbreviations, pk \in 0..MaxUnits :
          UnitApiSave(n, a, pk)

SpecUnits == InitUnits /\ [][NextUnits]_vars

-----------------------------------------------------------------------------
(* Dish requests: the nested write, the admin form *)

NewTomatoes == LineByName(w_Tomatoes, w_Cup, 2)
NewBasil == LineByName(w_Basil, w_Cup, 1)
ExistingById == LineById(1, 1, 1)
ZeroBasil == LineByName(w_Basil, w_Cup, 0)
NegativeBasil == LineByName(w_Basil, w_Cup, -1)
BasilNoUnit == Line(0, TRUE, w_Basil, 0, FALSE, w_empty, 1)
TomatoAgain == LineByName(w_tomatoes_upper, w_cups, 1)
BlankName == LineByName(w_blank, w_Cup, 1)
CupNoIngredient == Line(0, FALSE, w_empty, 0, TRUE, w_Cup, 1)

\* the ingredient-line lists a request may carry
LineLists ==
    { <<>>,
      <<NewTomatoes>>,
      <<ExistingById, NewBasil>>,
      <<NewTomatoes, ZeroBasil>>,
      <<NewTomatoes, BasilNoUnit>>,
      <<NewTomatoes, TomatoAgain>>,
      <<NegativeBasil>>,
      <<NewTomatoes, BlankName>>,
      <<CupNoIngredient>> }

\* the lines a standalone create may carry
StandaloneLines == {NewTomatoes, ExistingById, BasilNoUnit, CupNoIngredient}

StepOf(n) == [step_number |-> n]

DishPayloads ==
    {Payload(w_pasta, 60, 30, TRUE, l, FALSE, <<>>) : l \in LineLists}
    \cup
    {Payload(w_pasta, 60, 30, FALSE, <<>>, TRUE, st) :
        st \in {<<>>, <<StepOf(1), StepOf(2)>>, <<StepOf(2), StepOf(2)>>, <<StepOf(0)>>}}
    \cup
    {Payload(w_pasta, 200, 100, FALSE, <<>>, FALSE, <<>>),
     Payload(w_pasta, 0, 30, FALSE, <<>>, FALSE, <<>>),
     Payload(w_pasta, 60, 30, TRUE, <<ExistingById, NewBasil>>,
             TRUE, <<StepOf(1)>>)}

DishTimes == {<<60, 30>>, <<200, 100>>, <<200, 40>>}

InitDish == EmptyDb /\ audit = TRUE

NextDish ==
    \/ IngredientModelSave(w_Tomatoes, 0)
    \/ UnitModelSave(w_Cup, w_empty, 0)
    \/ \E p \in DishPayloads : DishApiCreate(p)
    \/ \E p \in DishPayloads, pk \in Ids(dishes) : DishApiUpdate(pk, p)
    \/ \E line \in StandaloneLines : DishIngredientApiCreate(line)
    \/ \E t \in DishTimes, pk \in {0} \cup Ids(dishes) :
          DishAdminSave(w_pasta, t[1], t[2], pk)

SpecDish == InitDish /\ [][NextDish]_vars

-----------------------------------------------------------------------------
(* Deletes and image files *)

\* the request's writes reach the tables and the storage
CommitFiles(call, r) ==
    /\ ingredients' = r.db.ingredients
    /\ units' = r.db.units
    /\ dishes' = r.db.dishes
    /\ dishIngredients' = r.db.dishIngredients
    /\ steps' = r.db.steps
    /\ files' = r.files
    /\ last' = Observe(call, r.status)
    /\ UNCHANGED <<requests, audit, groceryItems>>

\* DELETE /api/dishes/<pk>/ and the admin's delete of one dish
DishApiDelete(pk, fails) ==
    /\ pk \in Ids(dishes)
    /\ CommitFiles([op |-> "Dish.delete", pks |-> {pk}],
                   DishDelete(CurrentDb, files, pk, fails))

\* the admin's "delete selected dishes" on the dishes of order
DishAdminDeleteSelected(order, fails) ==
    /\ \A i \in 1..Len(order) : order[i] \in Ids(dishes)
    /\ CommitFiles([op |-> "delete_queryset",
                    pks |-> {order[i] : i \in 1..Len(order)}],
                   DeleteQueryset(CurrentDb, files, order, fails))

\* DELETE /api/units/<pk>/
UnitApiDelete(pk) ==
    /\ pk \in Ids(units)
    /\ Commit([op |-> "Unit.delete", pk |-> pk], UnitDelete(CurrentDb, pk))

\* a dish is saved with a newly uploaded image; storage picks a free name
DishUpload(pk, path, refused) ==
    /\ pk \in Ids(dishes)
    /\ path \notin files
    /\ CommitFiles([op |-> "Dish.save", pk |-> pk],
                   DishSaveImage(CurrentDb, files, pk, path, refused))

\* a step is saved with a newly uploaded image
StepUpload(step, path, refused) ==
    /\ step \in steps
    /\ path \notin files
    /\ CommitFiles([op |-> "CookingStep.save", dish |-> step.dish],
                   StepSaveImage(CurrentDb, files, step, path, refused))

DishPaths == {"dish_images/a.jpg", "dish_images/b.jpg"}

StepPaths == {"step_images/s.jpg"}

\* how often the removal of each file is refused within one call: one file
\* is refused not at all, once (the retry succeeds) or on both attempts
Refusals ==
    {[p \in DishPaths \cup StepPaths |-> IF p = q THEN n ELSE 0] :
        q \in DishPaths \cup StepPaths, n \in 0..2}

\* the largest id a Dish row is given
MaxDishes == 2

\* the orders in which a queryset may yield one or two of the dishes
Orders ==
    {<<a>> : a \in 1..MaxDishes}
    \cup ({<<a, b>> : a, b \in 1..MaxDishes} \ {<<a, a>> : a \in 1..MaxDishes})

\* two dishes with a line and steps each
DeletePayloads ==
    {Payload(w_pasta, 60, 30, TRUE, <<NewTomatoes>>, TRUE, <<StepOf(1), StepOf(2)>>),
     Payload(w_soup, 60, 30, TRUE, <<NewBasil>>, FALSE, <<>>)}

InitDelete == EmptyDb /\ audit = TRUE

NextDelete ==
    \/ \E p \in DeletePayloads : NextId(dishes) <= MaxDishes /\ DishApiCreate(p)
    \/ \E pk \in Ids(dishes), path \in DishPaths, refused \in BOOLEAN :
          DishUpload(pk, path, refused)
    \/ \E step \in steps, path \in StepPaths, refused \in BOOLEAN :
          StepUpload(step, path, refused)
    \/ \E pk \in Ids(dishes), fails \in Refusals : DishApiDelete(pk, fails)
    \/ \E order \in Orders, fails \in Refusals :
          DishAdminDeleteSelected(order, fails)
    \/ \E pk \in Ids(units) : UnitApiDelete(pk)

SpecDelete == InitDelete /\ [][NextDelete]_vars

-----------------------------------------------------------------------------
(* The steps of one dish: created, given images, replaced and deleted *)

\* the admin's inline delete of one step
StepAdminDelete(step, fails) ==
    /\ step \in steps
    /\ CommitFiles([op |-> "CookingStep.delete", dish |-> step.dish,
                    image |-> step.image, fails |-> fails],
                   StepDelete(CurrentDb, files, step, fails))

\* a dish with two steps, and the updates that replace its steps
StepPayloads ==
    {Payload(w_pasta, 60, 30, FALSE, <<>>, TRUE, <<StepOf(1), StepOf(2)>>),
     Payload(w_pasta, 60, 30, FALSE, <<>>, TRUE, <<StepOf(1)>>),
     Payload(w_pasta, 60, 30, FALSE, <<>>, TRUE, <<StepOf(1), StepOf(1)>>),
     Payload(w_pasta, 60, 30, FALSE, <<>>, FALSE, <<>>)}

StepFiles == {"step_images/s.jpg", "step_images/t.jpg"}

\* how often the removal of each image is refused within one call: one file
\* is refused not at all, once or on both attempts
StepRefusals ==
    {[p \in DishPaths \cup StepFiles |-> IF p = q THEN n ELSE 0] :
        q \in DishPaths \cup StepFiles, n \in 0..2}

\* the image field after a save with no upload: kept, or cleared
KeptOrCleared(image, clear) == IF clear THEN NoImage ELSE image

\* a dish is saved again, its image kept or cleared
DishResave(pk, clear, refused) ==
    /\ pk \in Ids(dishes)
    /\ CommitFiles([op |-> "Dish.save", pk |-> pk,
                    old |-> StoredImage(dishes, pk),
                    isfile |-> StoredImage(dishes, pk) \in files,
                    image |-> KeptOrCleared(StoredImage(dishes, pk), clear)],
                   DishSaveFields(CurrentDb, files, pk,
                                  KeptOrCleared(StoredImage(dishes, pk), clear),
                                  refused))

\* a step is saved again, its image kept or cleared
StepResave(step, clear, refused) ==
    /\ step \in steps
    /\ CommitFiles([op |-> "CookingStep.save", dish |-> step.dish,
                    old |-> step.image, isfile |-> step.image \in files,
                    image |-> KeptOrCleared(step.image, clear)],
                   StepSaveFields(CurrentDb, files, step,
                                  KeptOrCleared(step.image, clear), refused))

InitSteps == EmptyDb /\ audit = TRUE

NextSteps ==
    \/ \E p \in StepPayloads : dishes = {} /\ DishApiCreate(p)
    \/ \E p \in StepPayloads, pk \in Ids(dishes) : DishApiUpdate(pk, p)
    \/ \E pk \in Ids(dishes), path \in DishPaths, refused \in BOOLEAN :
          DishUpload(pk, path, refused)
    \/ \E step \in steps, path \in StepFiles, refused \in BOOLEAN :
          StepUpload(step, path, refused)
    \/ \E pk \in Ids(dishes), clear, refused \in BOOLEAN :
          DishResave(pk, clear, refused)
    \/ \E step \in steps, clear, refused \in BOOLEAN :
          StepResave(step, clear, refused)
    \/ \E step \in steps, fails \in 0..2 : StepAdminDelete(step, fails)
    \/ \E pk \in Ids(dishes), fails \in StepRefusals : DishApiDelete(pk, fails)

SpecSteps == InitSteps /\ [][NextSteps]_vars

-----------------------------------------------------------------------------
(* Dish requests whose lines carry an id and a name at once *)

\* ingredient 1 and unit 1 by id, with a second name, a blank name, no name
IdAndName == Line(1, TRUE, w_Basil, 1, TRUE, w_Tablespoon, 1)
IdAndBlankIngredient == Line(1, TRUE, w_blank, 1, FALSE, w_empty, 1)
IdAndBlankUnit == Line(1, FALSE, w_empty, 1, TRUE, w_empty, 1)

PriorityLines == {IdAndName, IdAndBlankIngredient, IdAndBlankUnit, ExistingById}

PriorityPayloads ==
    {Payload(w_pasta, 60, 30, TRUE, <<l>>, FALSE, <<>>) : l \in PriorityLines}

InitPriority == EmptyDb /\ audit = TRUE

NextPriority ==
    \/ \E n \in {w_tomato, w_basil} : IngredientModelSave(n, 0)
    \/ \E n \in {w_cup, w_tablespoon} : UnitModelSave(n, w_empty, 0)
    \/ \E p \in PriorityPayloads : dishes = {} /\ DishApiCreate(p)
    \/ \E p \in PriorityPayloads, pk \in Ids(dishes) : DishApiUpdate(pk, p)
    \/ \E line \in PriorityLines : DishIngredientApiCreate(line)

SpecPriority == InitPriority /\ [][NextPriority]_vars

-----------------------------------------------------------------------------
(* The grocery list *)

\* the largest id a GroceryItem row is given
MaxGroceries == 3

GroceryNames == {w_milk, w_Milk_padded, w_rye_bread, w_eggs, w_blank}

\* the grocery table changes (r) and the outcome is recorded with its count
CommitGroceries(call, status, count, table) ==
    /\ groceryItems' = table
    /\ last' = [call |-> call, status |-> status, count |-> count]
    /\ UNCHANGED <<ingredients, units, dishes, dishIngredients, steps, requests,
                   audit, files>>

\* POST /api/groceries/
GroceryApiCreate(name, in_cart, is_optional) ==
    /\ NextId(groceryItems) <= MaxGroceries
    /\ CommitGroceries([op |-> "GrocerySerializer.create", name |-> name],
                       GrocerySerializerCreate(groceryItems, name, in_cart,
                                               is_optional).status,
                       0,
                       GrocerySerializerCreate(groceryItems, name, in_cart,
                                               is_optional).table)

\* PATCH /api/groceries/<pk>/
GroceryApiSetInCart(pk, in_cart) ==
    /\ pk \in Ids(groceryItems)
    /\ CommitGroceries([op |-> "GrocerySerializer.update", pk |-> pk], "ok", 0,
                       GrocerySetInCart(groceryItems, pk, in_cart))

\* POST /api/groceries/mark_all_in_cart/
GroceryMarkAllInCart ==
    /\ groceryItems' = MarkAllInCart(groceryItems).table
    /\ last' = [call |-> [op |-> "mark_all_in_cart"], status |-> "ok",
                count |-> MarkAllInCart(groceryItems).count]
    /\ UNCHANGED <<ingredients, units, dishes, dishIngredients, steps, requests,
                   audit, files>>

\* POST /api/groceries/clear_cart/
GroceryClearCart ==
    /\ groceryItems' = ClearCart(groceryItems).table
    /\ last' = [call |-> [op |-> "clear_cart"], status |-> "ok",
                count |-> ClearCart(groceryItems).count]
    /\ UNCHANGED <<ingredients, units, dishes, dishIngredients, steps, requests,
                   audit, files>>

InitGrocery == EmptyDb /\ audit = TRUE

NextGrocery ==
    \/ \E n \in GroceryNames, in_cart, is_optional \in BOOLEAN :
          GroceryApiCreate(n, in_cart, is_optional)
    \/ \E pk \in Ids(groceryItems), in_cart \in BOOLEAN :
          GroceryApiSetInCart(pk, in_cart)
    \/ GroceryMarkAllInCart
    \/ GroceryClearCart

SpecGrocery == InitGrocery /\ [][NextGrocery]_vars

-----------------------------------------------------------------------------
(* Updates of stored Ingredient and Unit rows, with their inputs recorded *)

UpdateIngredientNames == {w_Cup_padded, w_min, w_minutes}

UpdateUnitNames == {w_Tablespoon, w_Cup_padded, w_min}

UpdateAbbreviations == {w_empty, w_TBSP}

InitUpdate == EmptyDb /\ audit = TRUE

NextUpdate ==
    \/ \E n \in UpdateIngredientNames : IngredientModelSave(n, 0)
    \/ \E n \in UpdateIngredientNames, pk \in 1..MaxIngredients :
          IngredientApiSave(n, pk)
    \/ \E n \in UpdateUnitNames, a \in UpdateAbbreviations : UnitModelSave(n, a, 0)
    \/ \E n \in UpdateUnitNames, a \in UpdateAbbreviations, pk \in 1..MaxUnits :
          UnitApiSave(n, a, pk)

SpecUpdate == InitUpdate /\ [][NextUpdate]_vars

-----------------------------------------------------------------------------
(* The two mixins alone, on every short text and on every known word *)

MaxLen == 3

Alphabet == {"C", "c", "s", " ", "\t"}

\* the texts of at most MaxLen characters
ShortTexts == UNION {[1..k -> Alphabet] : k \in 0..MaxLen}

\* every member of a synonym group, and words in mixed case or padded
KnownWords ==
    UNION {ModelSimilarGroups[i] : i \in 1..Len(ModelSimilarGroups)}
    \cup {w_Cup_padded, w_Tablespoon, w_TBSP, w_Tomatoes}

\* what a call on the mixins returns: the model's result, the serializer's
Returned(op, name, model_result, serializer_result) ==
    [call |-> [op |-> op, name |-> name], status |-> "ok",
     result |-> <<model_result, serializer_result>>]

CallNormalizeName(name) ==
    /\ last' = Returned("_normalize_name", name, NormalizeName(name),
                        SerializerNormalizeName(name))
    /\ UNCHANGED <<ingredients, units, dishes, dishIngredients, steps, requests,
                   audit, files, groceryItems>>

CallGetSimilarTerms(name) ==
    /\ last' = Returned("_get_similar_terms", name, ModelSimilarTerms(name),
                        SerializerSimilarTerms(name))
    /\ UNCHANGED <<ingredients, units, dishes, dishIngredients, steps, requests,
                   audit, files, groceryItems>>

InitMixin == EmptyDb /\ audit = TRUE

NextMixin ==
    \/ \E name \in ShortTexts \cup KnownWords : CallNormalizeName(name)
    \/ \E name \in ShortTexts \cup KnownWords : CallGetSimilarTerms(name)

SpecMixin == InitMixin /\ [][NextMixin]_vars

-----------------------------------------------------------------------------
(* The resolve-or-create helpers of DishIngredientSerializer, called alone *)

\* names handed to the helpers: none is blank
ResolveIngredientNames == {w_Cup_padded, w_cups, w_Tomatoes}

ResolveNames == {w_Cup_padded, w_min, w_TBSP}

\* the stored catalogue is filled through the models
StoredIngredientNames == {w_tomato, w_cup}

ResolveUnitNames == {w_Tablespoon, w_minutes}

ResolveAbbreviations == {w_empty, w_tbsp}

\* what the helper returned, after the call
Resolved(op, name, r) ==
    [call |-> [op |-> op, name |-> name], status |-> r.status, row |-> r.row.id]

\* self._get_or_create_ingredient(name)
CallGetOrCreateIngredient(name) ==
    /\ Cardinality(GetOrCreateIngredient(ingredients, name).table) <= MaxIngredients
    /\ ingredients' = GetOrCreateIngredient(ingredients, name).table
    /\ last' = Resolved("_get_or_create_ingredient", name,
                        GetOrCreateIngredient(ingredients, name))
    /\ UNCHANGED <<units, dishes, dishIngredients, steps, requests, audit, files,
                   groceryItems>>

\* self._get_or_create_unit(name)
CallGetOrCreateUnit(name) ==
    /\ Cardinality(GetOrCreateUnit(units, name).table) <= MaxUnits
    /\ units' = GetOrCreateUnit(units, name).table
    /\ last' = Resolved("_get_or_create_unit", name, GetOrCreateUnit(units, name))
    /\ UNCHANGED <<ingredients, dishes, dishIngredients, steps, requests, audit,
                   files, groceryItems>>

InitResolve == EmptyDb /\ audit = TRUE

NextResolve ==
    \/ \E n \in StoredIngredientNames : IngredientModelSave(n, 0)
    \/ \E n \in ResolveUnitNames, a \in ResolveAbbreviations : UnitModelSave(n, a, 0)
    \/ \E n \in ResolveIngredientNames : CallGetOrCreateIngredient(n)
    \/ \E n \in ResolveNames : CallGetOrCreateUnit(n)

SpecResolve == InitResolve /\ [][NextResolve]_vars

-----------------------------------------------------------------------------
(* Unit requests with singular and plural names outside every synonym group *)

PluralUnitNames == {w_bottle, w_bottles, w_Bottles_padded, w_jars, w_s}

InitPlural == EmptyDb /\ audit = TRUE

NextPlural ==
    \/ \E n \in PluralUnitNames, pk \in 0..MaxUnits : UnitModelSave(n, w_empty, pk)
    \/ \E n \in PluralUnitNames, pk \in 0..MaxUnits : UnitApiSave(n, w_empty, pk)
    \/ \E n \in PluralUnitNames : CallGetOrCreateUnit(n)

SpecPlural == InitPlural /\ [][NextPlural]_vars

-----------------------------------------------------------------------------
(* Dish.clean alone, on every pair of times *)

TimeValues == {None, 0, 1, 30, 40, 60, 100, 140, 200, 239, 240, 241, 1440}

\* dish.clean() on an unsaved Dish with the given times
CallDishClean(prep_time, cook_time) ==
    /\ last' = [call |-> [op |-> "Dish.clean", prep_time |-> prep_time,
                          cook_time |-> cook_time],
                status |-> IF DishClean(prep_time, cook_time) = {} THEN "ok"
                           ELSE "ValidationError",
                errors |-> DishClean(prep_time, cook_time)]
    /\ UNCHANGED <<ingredients, units, dishes, dishIngredients, steps, requests,
                   audit, files, groceryItems>>

InitDishClean == EmptyDb /\ audit = TRUE

NextDishClean == \E p \in TimeValues, c \in TimeValues : CallDishClean(p, c)

SpecDishClean == InitDishClean /\ [][NextDishClean]_vars

-----------------------------------------------------------------------------
(* Concurrent POST /api/units/ requests: each query and the INSERT is a step *)

MaxRequests == 2

RequestIds == 1..MaxRequests

\* the <<name, abbreviation>> a racing request may carry
RaceInputs ==
    {<<w_Cup, w_empty>>, <<w_Cup_padded, w_empty>>, <<w_cups, w_empty>>,
     <<w_Tablespoon, w_TBSP>>}

Idle == [pc |-> "idle", name |-> w_empty, abbreviation |-> w_empty,
         status |-> "none"]

\* request q moves to pc when its check found no error, and ends otherwise
AfterCheck(q, errors, pc) ==
    /\ requests' = [requests EXCEPT ![q] =
                       IF errors # {}
                       THEN [@ EXCEPT !.pc = "done", !.status = "ValidationError"]
                       ELSE [@ EXCEPT !.pc = pc]]
    /\ UNCHANGED <<ingredients, units, dishes, dishIngredients, steps, audit, last,
                   files, groceryItems>>

\* the request arrives; DRF has trimmed its fields
Receive(q, name, abbreviation) ==
    /\ requests[q].pc = "idle"
    /\ requests' = [requests EXCEPT ![q] =
                       [pc |-> "is_valid", name |-> Strip(name),
                        abbreviation |-> Strip(abbreviation), status |-> "none"]]
    /\ UNCHANGED <<ingredients, units, dishes, dishIngredients, steps, audit, last,
                   files, groceryItems>>

\* serializer.is_valid(): the field validators query the table
StepIsValid(q) ==
    /\ requests[q].pc = "is_valid"
    /\ AfterCheck(q, UnitSerializerFieldErrors(units, requests[q].name,
                                               requests[q].abbreviation, 0),
                  "validate_unit_data")

\* create: self._validate_unit_data(validated_data)
StepValidateUnitData(q) ==
    /\ requests[q].pc = "validate_unit_data"
    /\ AfterCheck(q, UnitValidateUnitData(units, requests[q].name,
                                          requests[q].abbreviation, 0),
                  "full_clean")

\* create: instance.save() up to self.full_clean()
StepFullClean(q) ==
    /\ requests[q].pc = "full_clean"
    /\ AfterCheck(q, UnitFullClean(units, NormalizeName(requests[q].name),
                                   NormalizeAbbreviation(requests[q].abbreviation),
                                   0),
                  "insert")

\* the INSERT Unit.save ends with, given its outcome r
Inserted(q, r) ==
    /\ units' = r.table
    /\ requests' = [requests EXCEPT ![q] = [@ EXCEPT !.pc = "done",
                                                     !.status = r.status]]
    /\ UNCHANGED <<ingredients, dishes, dishIngredients, steps, audit, last, files,
                   groceryItems>>

\* create: instance.save() from super().save()
StepInsert(q) ==
    /\ requests[q].pc = "insert"
    /\ Inserted(q, UnitWrite(units, 0,
                             [id |-> NextId(units),
                              name |-> NormalizeName(requests[q].name),
                              abbreviation |->
                                  NormalizeAbbreviation(requests[q].abbreviation)]))

InitRace ==
    /\ ingredients = {}
    /\ units = {}
    /\ dishes = {}
    /\ dishIngredients = {}
    /\ steps = {}
    /\ requests = [q \in RequestIds |-> Idle]
    /\ files = {}
    /\ groceryItems = {}
    /\ audit = FALSE
    /\ last = [call |-> [op |-> "none"], status |-> "ok"]

NextRace ==
    \/ \E q \in RequestIds, in \in RaceInputs : Receive(q, in[1], in[2])
    \/ \E q \in RequestIds : StepIsValid(q)
    \/ \E q \in RequestIds : StepValidateUnitData(q)
    \/ \E q \in RequestIds : StepFullClean(q)
    \/ \E q \in RequestIds : StepInsert(q)

SpecRace == InitRace /\ [][NextRace]_vars

-----------------------------------------------------------------------------
(* Properties of the catalogue *)

\* a and b are members of one group of the model's similar_groups
SameGroup(a, b) ==
    \E i \in 1..Len(ModelSimilarGroups) :
        Lower(a) \in ModelSimilarGroups[i] /\ Lower(b) \in ModelSimilarGroups[i]

\* a and b are the same up to letter case, or interchangeable terms
Clash(a, b) == Lower(a) = Lower(b) \/ SameGroup(a, b)

\* the name of a unit and its abbreviation when it has one
UnitTerms(name, abbreviation) ==
    {name} \cup (IF abbreviation # <<>> THEN {abbreviation} ELSE {})

NoDuplicateIngredients ==
    \A r1, r2 \in ingredients : r1 # r2 => ~Clash(r1.name, r2.name)

NoDuplicateUnits ==
    \A r1, r2 \in units :
        r1 # r2 =>
            \A x \in UnitTerms(r1.name, r1.abbreviation),
               y \in UnitTerms(r2.name, r2.abbreviation) : ~Clash(x, y)

\* C1: after any sequence of Ingredient and Unit creates and updates, handled
\* one at a time through Ingredient.save, Unit.save, the two serializers and
\* the get-or-create helpers of the dish writes, no two Ingredient rows have
\* names equal up to case or in one synonym group, and no two Unit rows have
\* a name or abbreviation equal up to case to, or in one synonym group with,
\* the name or abbreviation of the other.
C1_NoDuplicateRows == NoDuplicateIngredients /\ NoDuplicateUnits

\* C1 witness: both tables hold two rows and a further request was rejected
C1_Witness ==
    /\ Cardinality(ingredients) = 2
    /\ Cardinality(units) = 2
    /\ dishIngredients # {}
    /\ last.status = "ValidationError"

\* p is s with the plural ending "s" or "es"
IsPluralOf(p, s) == p = s \o <<"s">> \/ p = s \o <<"e", "s">>

\* one of a, b is the plural form of the other
PluralPair(a, b) == IsPluralOf(a, b) \/ IsPluralOf(b, a)

IngredientCreateCalled ==
    /\ last'.call.op \in {"Ingredient.save", "IngredientSerializer"}
    /\ last'.call.pk = 0

\* C2: once an ingredient with a plural name exists, creating an ingredient
\* with the corresponding singular name, or the reverse, fails as a conflict
\* and adds no Ingredient row.
C2_PluralSingularFold ==
    [][(/\ IngredientCreateCalled
        /\ \E r \in ingredients :
              PluralPair(r.name, Lower(Strip(last'.call.name))))
       => (last'.status = "ValidationError" /\ ingredients' = ingredients)]_vars

UnitCreateCalled ==
    /\ last'.call.op \in {"Unit.save", "UnitSerializer"}
    /\ last'.call.pk = 0

\* the terms of the unit a request asks for, trimmed
CalledUnitTerms ==
    UnitTerms(Strip(last'.call.name), Strip(last'.call.abbreviation))

\* C3: once a unit exists whose name or abbreviation belongs to a synonym
\* group, creating another unit whose name or abbreviation is any member of
\* that group, in any letter case, fails as a conflict and leaves the Unit
\* rows unchanged.
C3_UnitSynonymFold ==
    [][(/\ UnitCreateCalled
        /\ \E r \in units :
              \E x \in UnitTerms(r.name, r.abbreviation), y \in CalledUnitTerms :
                  SameGroup(x, y))
       => (last'.status = "ValidationError" /\ units' = units)]_vars

\* C3 witness: "Tablespoon"/"tbsp" exists and "tablespoons" was just refused
C3_Witness ==
    /\ \E r \in units : r.name = w_tablespoon /\ r.abbreviation = w_tbsp
    /\ last.call.op = "UnitSerializer"
    /\ last.call.pk = 0
    /\ last.call.name = w_tablespoons
    /\ last.status = "ValidationError"

\* s has no white space at either end and no upper-case letter
IsNormalized(s) ==
    /\ s # <<>> => (s[1] \notin Whitespace /\ s[Len(s)] \notin Whitespace)
    /\ \A i \in 1..Len(s) : \A k \in 1..Len(UpperCase) : s[i] # UpperCase[k]

\* C20: after any sequence of saves, every stored Ingredient name, Unit name
\* and non-empty Unit abbreviation is in normalized form: no white space at
\* either end and no upper-case letter.
C20_StoredNamesNormalized ==
    /\ \A r \in ingredients : IsNormalized(r.name)
    /\ \A r \in units :
          IsNormalized(r.name) /\ (r.abbreviation # <<>> => IsNormalized(r.abbreviation))

\* " Cup " was saved as an ingredient and "Tablespoon" / "TBSP" as a unit
C20_Witness ==
    /\ \E r \in ingredients : r.name = w_cup
    /\ \E r \in units : r.name = w_tablespoon /\ r.abbreviation = w_tbsp

\* a is b followed by one "s"
PluralOf(a, b) == a = Append(b, "s")

\* C21: unit name normalization strips one trailing "s" from any name longer
\* than one character, so no stored unit name longer than one character ends
\* in "s", and two names that differ only by one trailing "s" are never both
\* stored: the second create is a conflict.
C21_UnitPluralStripped ==
    /\ \A r \in units : Len(r.name) > 1 => r.name[Len(r.name)] # "s"
    /\ \A r1, r2 \in units : ~PluralOf(r1.name, r2.name)

\* the stored row with primary key pk
RowOf(rows, pk) == CHOOSE r \in rows : r.id = pk

\* the ingredient update of the call either names the row itself and goes
\* through, or names another row and is rejected
IngredientUpdateRule(call) ==
    /\ Lower(Strip(call.name)) = RowOf(ingredients, call.pk).name
       => (last'.status = "ok" /\ ingredients' = ingredients)
    /\ (\E r \in ExcludePk(ingredients, call.pk) : Clash(Strip(call.name), r.name))
       => (last'.status # "ok" /\ ingredients' = ingredients)

\* the same for a unit, on its name and its abbreviation
UnitUpdateRule(call) ==
    /\ (/\ Lower(Strip(call.name)) = RowOf(units, call.pk).name
        /\ Lower(Strip(call.abbreviation)) = RowOf(units, call.pk).abbreviation)
       => (last'.status = "ok" /\ units' = units)
    /\ (\E r \in ExcludePk(units, call.pk) :
           \E x \in UnitTerms(Strip(call.name), Strip(call.abbreviation)),
              y \in UnitTerms(r.name, r.abbreviation) : Clash(x, y))
       => (last'.status # "ok" /\ units' = units)

-----------------------------------------------------------------------------
(* Properties of the dish writes *)

\* C4: after any sequence of Dish creates and updates, including those made
\* through DishSerializer.create and DishSerializer.update, every persisted
\* Dish satisfies prep_time + cook_time <= 240.
C4_TotalTimeBound ==
    \A d \in dishes : d.prep_time + d.cook_time <= MaxTotalTime

\* C5: for non-null times Dish.clean raises an error tagged cook_time exactly
\* when prep_time + cook_time > 240, and raises nothing otherwise.
C5_DishCleanTotal ==
    (/\ last.call.op = "Dish.clean"
     /\ last.call.prep_time # None
     /\ last.call.cook_time # None)
    => IF last.call.prep_time + last.call.cook_time > 240
       THEN /\ last.status = "ValidationError"
            /\ last.errors # {}
            /\ \A e \in last.errors : e[1] = "cook_time"
       ELSE last.status = "ok" /\ last.errors = {}

\* C5 witness: prep_time = 200 and cook_time = 100 were refused on cook_time
C5_Witness ==
    /\ last.call.op = "Dish.clean"
    /\ last.call.prep_time = 200
    /\ last.call.cook_time = 100
    /\ last.errors = {<<"cook_time", "Total cooking time exceeds 4 hours.">>}

Tables == <<ingredients, units, dishes, dishIngredients, steps>>

\* C6: the nested dish create is all-or-nothing: when DishSerializer.create
\* fails, no Dish, Ingredient, Unit, DishIngredient or CookingStep row that
\* the request inserted persists.
C6_CreateAllOrNothing ==
    [][(last'.call.op = "DishSerializer.create" /\ last'.status # "ok")
       => Tables' = Tables]_vars

\* C7: every persisted DishIngredient row has a quantity strictly greater
\* than 0.
C7_PositiveQuantity == \A r \in dishIngredients : r.quantity > 0

LinesOf(payload) == IF payload.has_lines THEN payload.lines ELSE <<>>

\* the lines that reference an ingredient by id alone
LinesById(lines) ==
    {i \in 1..Len(lines) :
        ~lines[i].has_ingredient_name /\ lines[i].ingredient_id # 0}

\* the lines whose name matches no row of the Ingredient table rows
LinesByNewName(rows, lines) ==
    {i \in 1..Len(lines) :
        /\ lines[i].has_ingredient_name
        /\ \A r \in rows : ~Clash(r.name, Strip(lines[i].ingredient_name))}

\* the dish a successful create has inserted
CreatedDish(before, after) == CHOOSE d \in after : d \notin before

\* C8: a successful dish create whose lines are k references to existing
\* ingredients by id and m names matching no existing ingredient adds
\* exactly m Ingredient rows and k + m DishIngredient rows for the new dish.
C8_CreateRowCounts ==
    [][(/\ last'.call.op = "DishSerializer.create"
        /\ last'.status = "ok"
        /\ LinesById(LinesOf(last'.call.payload))
             \cup LinesByNewName(ingredients, LinesOf(last'.call.payload))
           = 1..Len(LinesOf(last'.call.payload)))
       => (/\ Cardinality(ingredients') =
                Cardinality(ingredients)
                + Cardinality(LinesByNewName(ingredients,
                                             LinesOf(last'.call.payload)))
           /\ Cardinality({r \in dishIngredients' :
                              r.dish = CreatedDish(dishes, dishes').id})
              = Len(LinesOf(last'.call.payload)))]_vars

\* C8 witness: one existing id and one new name gave two rows and basil
C8_Witness ==
    /\ last.call.op = "DishSerializer.create"
    /\ last.status = "ok"
    /\ last.call.payload.lines = <<ExistingById, NewBasil>>
    /\ {r.name : r \in ingredients} = {w_tomatoes, w_basil}
    /\ Cardinality(dishIngredients) = 2

\* row r is what line yields, given the Ingredient and Unit rows
BuiltFrom(r, line, irows, urows) ==
    /\ r.quantity = line.quantity
    /\ IF line.has_ingredient_name
       THEN \E i \in irows :
               i.id = r.ingredient /\ Clash(i.name, Strip(line.ingredient_name))
       ELSE r.ingredient = line.ingredient_id
    /\ IF line.has_unit_name
       THEN \E u \in urows :
               /\ u.id = r.unit
               /\ \E t \in UnitTerms(u.name, u.abbreviation) :
                      Clash(t, Strip(line.unit_name))
       ELSE r.unit = line.unit_id

LinesReplaced(pk, lines) ==
    LET rows == {r \in dishIngredients' : r.dish = pk}
    IN  /\ Cardinality(rows) = Len(lines)
        /\ \A i \in 1..Len(lines) :
              \E r \in rows : BuiltFrom(r, lines[i], ingredients', units')
        /\ \A r \in rows :
              \E i \in 1..Len(lines) :
                  BuiltFrom(r, lines[i], ingredients', units')

StepsReplaced(pk, steplist) ==
    LET rows == {r \in steps' : r.dish = pk}
    IN  /\ Cardinality(rows) = Len(steplist)
        /\ {r.step_number : r \in rows}
           = {steplist[i].step_number : i \in 1..Len(steplist)}

\* C10: on a dish update that supplies an ingredient-line list the dish's
\* DishIngredient rows afterwards are exactly the rows built from that list,
\* and when the list is omitted they are unchanged; the same holds
\* independently for the step list and the dish's CookingStep rows.
C10_UpdateReplaces ==
    [][(last'.call.op = "DishSerializer.update" /\ last'.status = "ok")
       => (/\ IF last'.call.payload.has_lines
              THEN LinesReplaced(last'.call.pk, last'.call.payload.lines)
              ELSE {r \in dishIngredients' : r.dish = last'.call.pk}
                   = {r \in dishIngredients : r.dish = last'.call.pk}
           /\ IF last'.call.payload.has_steps
              THEN StepsReplaced(last'.call.pk, last'.call.payload.steps)
              ELSE {r \in steps' : r.dish = last'.call.pk}
                   = {r \in steps : r.dish = last'.call.pk})]_vars

\* C10 witness: an update replaced two lines by one and left the steps alone
C10_Witness ==
    /\ last.call.op = "DishSerializer.update"
    /\ last.status = "ok"
    /\ last.call.payload.has_lines
    /\ last.call.payload.lines = <<NewTomatoes>>
    /\ ~last.call.payload.has_steps
    /\ Cardinality(ingredients) = 2
    /\ Cardinality(dishIngredients) = 1
    /\ Cardinality(steps) = 2

\* the ingredient lines the request recorded in last' carries
CalledLines ==
    IF last'.call.op = "DishIngredientSerializer.create" THEN <<last'.call.line>>
    ELSE IF last'.call.op \in {"DishSerializer.create", "DishSerializer.update"}
    THEN LinesOf(last'.call.payload)
    ELSE <<>>

\* the line names its ingredient, or its unit, by neither id nor name
Unidentified(line) ==
    \/ ~line.has_ingredient_name /\ line.ingredient_id = 0
    \/ ~line.has_unit_name /\ line.unit_id = 0

\* C11: an ingredient line that identifies its ingredient by neither id nor
\* name, or its unit by neither id nor name, fails with a validation error,
\* not a database integrity error, on the standalone DishIngredient create
\* and on the nested dish create and update, and persists no DishIngredient
\* row.
C11_UnidentifiedLineRejected ==
    [][(\E i \in 1..Len(CalledLines) : Unidentified(CalledLines[i]))
       => (last'.status = "ValidationError"
           /\ dishIngredients' = dishIngredients)]_vars

\* the ids of the Ingredient rows a line resolves to
ResolvesTo(rows, line) ==
    IF line.has_ingredient_name
    THEN {r.id : r \in {x \in rows : Clash(x.name, Strip(line.ingredient_name))}}
    ELSE {line.ingredient_id}

\* two lines that resolve to one Ingredient: by id, or by names that
\* normalise or resolve to the same row
SameIngredient(rows, l1, l2) ==
    \/ ResolvesTo(rows, l1) \cap ResolvesTo(rows, l2) # {}
    \/ /\ l1.has_ingredient_name
       /\ l2.has_ingredient_name
       /\ Clash(Strip(l1.ingredient_name), Strip(l2.ingredient_name))

\* C12: after any sequence of dish creates, dish updates and standalone
\* DishIngredient creates no two DishIngredient rows share one (dish,
\* ingredient) pair, and a dish payload with two lines that resolve to the
\* same Ingredient fails.
C12_OneLinePerIngredient ==
    [][/\ \A r1, r2 \in dishIngredients' :
            (r1.dish = r2.dish /\ r1.ingredient = r2.ingredient) => r1 = r2
       /\ (/\ last'.call.op \in {"DishSerializer.create", "DishSerializer.update"}
           /\ \E i, j \in 1..Len(CalledLines) :
                 i # j /\ SameIngredient(ingredients, CalledLines[i],
                                         CalledLines[j]))
          => last'.status # "ok"]_vars

\* C12 witness: "Tomatoes" and then "TOMATOES" in one payload hit the index
C12_Witness ==
    /\ last.call.op = "DishSerializer.create"
    /\ last.call.payload.lines = <<NewTomatoes, TomatoAgain>>
    /\ last.status = "IntegrityError"
    /\ Cardinality(dishIngredients) = 1

\* C17: a dish update is atomic as a whole: when replacing the ingredient
\* lines or the steps fails partway through DishSerializer.update, the
\* dish's scalar fields, its DishIngredient rows and its CookingStep rows are
\* all exactly as they were before the request.
C17_UpdateAllOrNothing ==
    [][(last'.call.op = "DishSerializer.update" /\ last'.status # "ok")
       => (/\ dishes' = dishes
           /\ dishIngredients' = dishIngredients
           /\ steps' = steps)]_vars

\* the row a line must attach: the one the name resolves to when the name is
\* not blank, the one given by id otherwise
Attaches(rows, has_name, name, id, attached) ==
    IF has_name /\ Strip(name) # <<>>
    THEN \E r \in rows : r.id = attached /\ Clash(Strip(name), r.name)
    ELSE attached = id

\* the nested write of the one line l went through and attached what it must
NestedAttaches(l, dish) ==
    /\ last'.status = "ok"
    /\ \E r \in dishIngredients' :
          /\ r.dish = dish
          /\ Attaches(ingredients', l.has_ingredient_name, l.ingredient_name,
                      l.ingredient_id, r.ingredient)
          /\ Attaches(units', l.has_unit_name, l.unit_name, l.unit_id, r.unit)

\* C25: name takes priority over id and a blank name falls back to the id:
\* a valid nested create or update of one line that carries both an id and a
\* name attaches the Ingredient (the Unit) resolved from the name when the
\* name is not blank, and the one given by id when the name is empty or
\* white space, as the standalone create resolves them.
C25_NameThenId ==
    [][(/\ last'.call.op \in {"DishSerializer.create", "DishSerializer.update"}
        /\ DishSerializerValidate(CurrentDb, last'.call.payload, last'.call.pk) = {}
        /\ last'.call.payload.lines[1].ingredient_id # 0
        /\ last'.call.payload.lines[1].unit_id # 0)
       => NestedAttaches(last'.call.payload.lines[1],
                         IF last'.call.pk = 0 THEN NextId(dishes) ELSE last'.call.pk)]_vars

-----------------------------------------------------------------------------
(* Properties of deletes and image files *)

\* C13: deleting a Unit that a DishIngredient row still references fails
\* with an error and leaves every Unit and DishIngredient row unchanged; the
\* delete succeeds only when no row references the Unit.
C13_ProtectedUnit ==
    [][(last'.call.op = "Unit.delete")
       => IF \E r \in dishIngredients : r.unit = last'.call.pk
          THEN /\ last'.status # "ok"
               /\ units' = units
               /\ dishIngredients' = dishIngredients
          ELSE /\ last'.status = "ok"
               /\ units' = {r \in units : r.id # last'.call.pk}]_vars

\* C13 witness: the delete of a unit in use was refused
C13_Witness ==
    /\ last.call.op = "Unit.delete"
    /\ last.status = "ProtectedError"
    /\ \E r \in dishIngredients : r.unit = last.call.pk
    /\ \E u \in units : u.id = last.call.pk

DishDeleteCalled == last'.call.op \in {"Dish.delete", "delete_queryset"}

\* the rows of the dishes pks are gone and every other row is as it was
RowsGone(pks) ==
    /\ dishes' = {r \in dishes : r.id \notin pks}
    /\ dishIngredients' = {r \in dishIngredients : r.dish \notin pks}
    /\ steps' = {r \in steps : r.dish \notin pks}
    /\ ingredients' = ingredients
    /\ units' = units

\* no image file of the dishes pks or of their steps is left in storage
ImagesGone(pks) ==
    /\ \A d \in dishes : (d.id \in pks /\ d.image # NoImage) => d.image \notin files'
    /\ \A st \in steps :
          (st.dish \in pks /\ st.image # NoImage) => st.image \notin files'

\* C14: after a Dish delete that completes (Dish.delete or the admin's
\* delete_queryset) the Dish row, its DishIngredient rows and its CookingStep
\* rows are gone, the dish's image file and every owned step's image file no
\* longer exist in storage, and no Ingredient row, Unit row or row of
\* another dish is removed.
C14_DishDeleteCascades ==
    [][(DishDeleteCalled /\ last'.status = "ok")
       => (RowsGone(last'.call.pks) /\ ImagesGone(last'.call.pks))]_vars

\* C14 witness: one dish was deleted; the other dish, its image file, and the
\* ingredients and the unit of both are still there
C14_Witness ==
    /\ last.call.op = "Dish.delete"
    /\ last.status = "ok"
    /\ Cardinality(dishes) = 1
    /\ \A d \in dishes : d.id \notin last.call.pks /\ d.image \in files
    /\ Cardinality(files) = 1
    /\ Cardinality(ingredients) = 2
    /\ \A r \in dishIngredients : r.dish \notin last.call.pks

\* C15: a failure to delete an image file never blocks the database delete:
\* Dish.delete and the admin bulk delete remove the Dish row and its
\* dependent rows even when the removal of a file still fails after the
\* retry.
C15_FileFailureNotFatal ==
    [][DishDeleteCalled => RowsGone(last'.call.pks)]_vars

\* C22: whenever a CookingStep row is removed, by CookingStep.delete, by
\* the deletion of its Dish, or by the delete-then-recreate of the steps in
\* DishSerializer.update, the image file of that step no longer exists in
\* storage once the operation has completed.
C22_RemovedStepImageGone ==
    [][(last'.call.op \in {"CookingStep.delete", "Dish.delete",
                           "DishSerializer.update"})
       => \A st \in steps \ steps' : st.image # NoImage => st.image \notin files']_vars

\* C23: an image-file removal that hits a PermissionError is retried exactly
\* once, and the error propagates only if the second attempt also fails: an
\* operation whose file is refused once completes, and it ends in a
\* PermissionError only when the file is refused twice in a row.
C23_RemovalRetriedOnce ==
    [][(last'.call.op = "CookingStep.delete")
       => /\ last'.status = "PermissionError" => last'.call.fails = 2
          /\ (last'.call.fails = 1 /\ last'.call.image \in files)
             => (last'.status = "ok" /\ last'.call.image \notin files')]_vars

\* the files a save must have removed: the old file, when the record had an
\* image that differs from the new one and its file was there
OldFileOf(old, new) ==
    IF old # NoImage /\ old # new /\ old \in files THEN {old} ELSE {}

\* the save of the dish pk removed the old file exactly when it had to
DishSaveRemoves(pk) ==
    IF last'.status = "ok"
    THEN files \ files' = OldFileOf(StoredImage(dishes, pk), StoredImage(dishes', pk))
    ELSE /\ files' = files
         /\ StoredImage(dishes, pk) \in files

\* the save of a step of the dish removed the old file exactly when it had to
StepSaveRemoves(dish) ==
    IF last'.status = "ok"
    THEN IF steps' = steps THEN files \ files' = {}
         ELSE \E old \in steps \ steps', new \in steps' \ steps :
                 /\ steps' = (steps \ {old}) \cup {new}
                 /\ files \ files' = OldFileOf(old.image, new.image)
    ELSE /\ files' = files
         /\ \E st \in steps : st.dish = dish /\ st.image \in files

\* C24: saving a Dish or a CookingStep removes the previously stored image
\* file exactly when the record already existed, its stored image was
\* non-empty and the new image reference differs from it; a missing old file
\* is ignored without error, and saving a new record or saving with an
\* unchanged image removes no file.
C24_SaveRemovesOldImage ==
    [][/\ (last'.call.op = "Dish.save") => DishSaveRemoves(last'.call.pk)
       /\ (last'.call.op = "CookingStep.save") => StepSaveRemoves(last'.call.dish)
       /\ (last'.call.op = "DishSerializer.create") => files \ files' = {}]_vars

\* C24 witness: a step whose image file was in storage was saved with the
\* image cleared; that file is gone and the file of another step is kept
C24_Witness ==
    /\ last.call.op = "CookingStep.save"
    /\ last.status = "ok"
    /\ "old" \in DOMAIN last.call
    /\ last.call.old = "step_images/s.jpg"
    /\ last.call.isfile
    /\ last.call.image = NoImage
    /\ "step_images/s.jpg" \notin files
    /\ \E st \in steps : st.image = "step_images/t.jpg" /\ st.image \in files

\* C29: database rows and image files stay consistent: in every state
\* reached through Dish / CookingStep saves and deletes, those that fail
\* partway included, every stored Dish or CookingStep row with a non-empty
\* image refers to a file that the image code has not removed.
C29_RowsHaveTheirFiles ==
    /\ \A d \in dishes : d.image # NoImage => d.image \in files
    /\ \A st \in steps : st.image # NoImage => st.image \in files

-----------------------------------------------------------------------------
(* Properties of the grocery list *)

\* C26: "mark all in cart" sets in_cart to true on every GroceryItem, adds
\* and removes no item, changes no other field, reports a count equal to the
\* number of items that were not in the cart before the call, and is
\* idempotent: a second call changes nothing and reports 0.
C26_MarkAllInCart ==
    [][(last'.call.op = "mark_all_in_cart")
       => /\ \A r \in groceryItems' : r.in_cart
          /\ Ids(groceryItems') = Ids(groceryItems)
          /\ Cardinality(groceryItems') = Cardinality(groceryItems)
          /\ \A r \in groceryItems : \E q \in groceryItems' :
                /\ q.id = r.id
                /\ q.name = r.name
                /\ q.is_optional = r.is_optional
          /\ last'.count = Cardinality({r \in groceryItems : ~r.in_cart})
          /\ (last.call.op = "mark_all_in_cart")
             => (groceryItems' = groceryItems /\ last'.count = 0)]_vars

\* C26 witness: three items, an optional one among them, all marked by a
\* call that reported 2
C26_Witness ==
    /\ last.call.op = "mark_all_in_cart"
    /\ last.count = 2
    /\ Cardinality(groceryItems) = 3
    /\ \E r \in groceryItems : r.is_optional
    /\ \A r \in groceryItems : r.in_cart

\* C27: "clear cart" deletes exactly the GroceryItem rows whose in_cart is
\* true, leaves every item with in_cart false unchanged, and reports a count
\* equal to the number of rows it deleted; "mark all in cart" followed by
\* "clear cart" leaves the grocery list empty.
C27_ClearCart ==
    [][(last'.call.op = "clear_cart")
       => /\ groceryItems' = {r \in groceryItems : ~r.in_cart}
          /\ last'.count = Cardinality(groceryItems \ groceryItems')
          /\ (last.call.op = "mark_all_in_cart") => groceryItems' = {}]_vars

\* C27 witness: a call that removed two items and kept the one not in the cart
C27_Witness ==
    /\ last.call.op = "clear_cart"
    /\ last.count = 2
    /\ Cardinality(groceryItems) = 1
    /\ \A r \in groceryItems : ~r.in_cart /\ r.id = 2

-----------------------------------------------------------------------------
(* Properties of the mixins *)

\* C16: name normalization is idempotent, for the model mixin and for the
\* serializer mixin: _normalize_name(_normalize_name(N)) = _normalize_name(N).
C16_NormalizeIdempotent ==
    (last.call.op = "_normalize_name")
    => /\ NormalizeName(last.result[1]) = last.result[1]
       /\ SerializerNormalizeName(last.result[2]) = last.result[2]

\* C16 witness: a padded text in mixed case was normalised
C16_Witness ==
    /\ last.call.op = "_normalize_name"
    /\ last.call.name = <<" ", "C", "s">>
    /\ last.result = <<(<<"c", "s">>), (<<"c", "s">>)>>

\* C19: the synonym tables of the two layers agree: for every name the
\* serializer mixin's _get_similar_terms returns the same set of terms as
\* the model mixin's.
C19_SynonymTablesAgree ==
    (last.call.op = "_get_similar_terms") => last.result[1] = last.result[2]

\* the stored ingredients the name matches: same up to letter case, or a
\* member of the name's synonym group
IngredientMatches(rows, name) == {r \in rows : Clash(Strip(name), r.name)}

\* the stored units whose name or abbreviation the name matches
UnitMatches(rows, name) ==
    {r \in rows : \E t \in UnitTerms(r.name, r.abbreviation) : Clash(Strip(name), t)}

\* the helper reused a matching row, or inserted the one row it had to
ReusedOrInserted(before, after, matches, name) ==
    IF matches # {}
    THEN /\ last'.status = "ok"
         /\ after = before
         /\ last'.row \in Ids(matches)
    ELSE /\ last'.status = "ok"
         /\ before \subseteq after
         /\ Cardinality(after \ before) = 1
         /\ \A r \in after \ before :
               r.name = Lower(Strip(name)) /\ r.id = last'.row

\* C18: resolve-or-create reuses on any match: when the supplied name,
\* compared case-insensitively and widened by its synonym group, matches an
\* existing Ingredient name (or an existing Unit name or abbreviation), the
\* helper returns that row and inserts nothing; otherwise it inserts exactly
\* one new row whose stored name is the trimmed, lower-cased input.
C18_ResolveReusesOrInserts ==
    [][/\ (last'.call.op = "_get_or_create_ingredient")
          => ReusedOrInserted(ingredients, ingredients',
                              IngredientMatches(ingredients, last'.call.name),
                              last'.call.name)
       /\ (last'.call.op = "_get_or_create_unit")
          => ReusedOrInserted(units, units',
                              UnitMatches(units, last'.call.name),
                              last'.call.name)]_vars

-----------------------------------------------------------------------------
(* Properties of concurrent requests *)

\* every request has finished and all asked for one normalised name
AllDoneSameName ==
    /\ \A q \in DOMAIN requests : requests[q].pc = "done"
    /\ \A q1, q2 \in DOMAIN requests :
          NormalizeName(requests[q1].name) = NormalizeName(requests[q2].name)

\* C9: two concurrent requests that create a unit whose name normalises to
\* the same value leave, under every interleaving, exactly one Unit row with
\* that name, and the losing request receives a conflict (validation) error,
\* not a duplicate and not another error.
C9_RaceOneWinner ==
    (Cardinality(DOMAIN requests) >= 2 /\ AllDoneSameName)
    => /\ Cardinality(units) = 1
       /\ Cardinality({q \in DOMAIN requests : requests[q].status = "ok"}) = 1
       /\ \A q \in DOMAIN requests :
             requests[q].status \in {"ok", "ValidationError"}

\* requests q1 and q2 ask for units that are duplicates of each other: names
\* of one synonym group, or one abbreviation under two names
RacingDuplicates(q1, q2) ==
    \/ Clash(requests[q1].name, requests[q2].name)
    \/ /\ requests[q1].abbreviation # <<>>
       /\ Clash(requests[q1].abbreviation, requests[q2].abbreviation)

\* C28: the duplicate-free invariant survives concurrency: when two requests
\* concurrently create units whose names are different members of one
\* synonym group, or units with different names and the same abbreviation,
\* then under every interleaving of their checks and inserts at most one of
\* them inserts a row.
C28_RaceAtMostOneInsert ==
    \A q1, q2 \in RequestIds :
        (q1 # q2 /\ RacingDuplicates(q1, q2))
        => ~(requests[q1].status = "ok" /\ requests[q2].status = "ok")

=============================================================================
